---- MODULE Spec2Model ----
(***************************************************************************)
(* A model of the statement interpretation pipeline of the PDF-to-CSV      *)
(* converter: bank detection (services/bank_detection.py), the parser      *)
(* registry and the line parsers (services/bank_parsers/), and the         *)
(* process_pdf / upload_pdf pipeline (services/pdf_processor.py, main.py). *)
(*                                                                         *)
(* Texts are strings; a character is a string of length one.  The regular  *)
(* expressions of the source are transcribed as sequences of items and     *)
(* run by a backtracking matcher with the priorities of Python's re        *)
(* (leftmost match, greedy or lazy quantifiers, ordered alternatives).     *)
(* Amounts are integers counting cents; scores are integers counting       *)
(* hundredths.                                                             *)
(***************************************************************************)
EXTENDS Integers, Sequences, FiniteSets, TLC

VARIABLES
    text,       \* the text handed to detect_bank or to a parser
    clean_text, \* detection: _clean_text_for_detection of the text
    counts,     \* detection: per bank, the findall count of each primary pattern
    secs,       \* detection: per bank, the number of matching secondary indicators
    scores,     \* detection: per bank, _calculate_bank_score of text
    threshold,  \* detection: confidence_threshold of the last detect_bank call
    detected,   \* detection: what the last detect_bank call returned ("none" before)
    parts,      \* the number of phrases or lines the text is made of
    parser,     \* parsing: the parser that produced the transactions ("none" before)
    transactions, \* parsing: the Transactions of the last extract_transactions call
    pc,         \* pipeline: the step of process_pdf / upload_pdf that comes next
    bank_type,  \* pipeline: the tag handed to get_parser_for_bank ("none" before)
    result,     \* pipeline: the ProcessingResult of process_pdf (NoResult before)
    steps,      \* pipeline: the steps that process_pdf has taken, in order
    file,       \* pipeline: the uploaded file of upload_pdf (NoFile before)
    checks,     \* pipeline: the checks of upload_pdf that the file has passed
    raised,     \* pipeline: the message of the exception that ended the extraction
    today,      \* data cleaner: date.today()
    call,       \* data cleaner: the last call, its day, argument and return value
    tasks,      \* concurrent process_pdf invocations: the locals of each
    shared      \* what the invocations share: the registry and the detector

vars == <<text, clean_text, counts, secs, scores, threshold, detected, parts, parser,
          transactions, pc, bank_type, result, steps, file, checks, raised,
          today, call, tasks, shared>>

detect_vars == <<clean_text, counts, secs, scores, threshold, detected>>

parse_vars == <<parser, transactions>>

pipeline_vars == <<pc, bank_type, result, steps, file, checks, raised>>

aux_vars == <<today, call, tasks, shared>>

\* no ProcessingResult yet
NoResult == [success |-> FALSE, message |-> "", data |-> <<>>, errors |-> <<>>]

\* no file has been uploaded
NoFile == [content_type |-> "", size |-> 0, readable |-> FALSE,
           content |-> [prefix |-> "", length |-> 0]]

\* no process_pdf call has started
NoPipeline ==
    /\ pc = "idle"
    /\ bank_type = "none"
    /\ result = NoResult
    /\ steps = <<>>
    /\ file = NoFile
    /\ checks = <<>>
    /\ raised = ""

\* PARSER_REGISTRY of services/bank_parsers/__init__.py: the class of the
\* parser of each bank type
PARSER_REGISTRY ==
    [chase |-> "ChaseParser",
     amex |-> "AmexParser",
     banco_nacion |-> "BancoNacionParser",
     generic |-> "GenericParser",
     citibank |-> "GenericParser",
     bank_of_america |-> "GenericParser",
     capital_one |-> "GenericParser",
     wells_fargo |-> "GenericParser",
     discover |-> "GenericParser"]

\* confidence_threshold of a BankDetector
DefaultThreshold == 60

\* a day to start from
FirstDay == <<2024, 12, 30>>

\* no data cleaner call
NoCall == [op |-> "none", arg |-> <<>>, out |-> <<>>, day |-> <<0, 0, 0>>]

\* no data cleaner call and no concurrent invocation, the shared objects as
\* the module builds them
NoAux ==
    /\ today = FirstDay
    /\ call = NoCall
    /\ tasks = <<>>
    /\ shared = [registry |-> PARSER_REGISTRY, confidence_threshold |-> DefaultThreshold]

----------------------------------------------------------------------------
(* Characters *)

Digit == {"0", "1", "2", "3", "4", "5", "6", "7", "8", "9"}

LowerCase == {"a", "b", "c", "d", "e", "f", "g", "h", "i", "j", "k", "l", "m",
              "n", "o", "p", "q", "r", "s", "t", "u", "v", "w", "x", "y", "z"}

UpperCase == {"A", "B", "C", "D", "E", "F", "G", "H", "I", "J", "K", "L", "M",
              "N", "O", "P", "Q", "R", "S", "T", "U", "V", "W", "X", "Y", "Z"}

Alpha == LowerCase \cup UpperCase

\* \s of Python's re, over the characters the model's texts use
WhiteSpace == {" ", "\n", "\t"}

\* \w of Python's re
WordChar == Alpha \cup Digit \cup {"_"}

\* str.lower() of one character
LowerMap ==
    [c \in UpperCase |->
        CASE c = "A" -> "a" [] c = "B" -> "b" [] c = "C" -> "c" [] c = "D" -> "d"
          [] c = "E" -> "e" [] c = "F" -> "f" [] c = "G" -> "g" [] c = "H" -> "h"
          [] c = "I" -> "i" [] c = "J" -> "j" [] c = "K" -> "k" [] c = "L" -> "l"
          [] c = "M" -> "m" [] c = "N" -> "n" [] c = "O" -> "o" [] c = "P" -> "p"
          [] c = "Q" -> "q" [] c = "R" -> "r" [] c = "S" -> "s" [] c = "T" -> "t"
          [] c = "U" -> "u" [] c = "V" -> "v" [] c = "W" -> "w" [] c = "X" -> "x"
          [] c = "Y" -> "y" [] c = "Z" -> "z"]

LowerChar(c) == IF c \in UpperCase THEN LowerMap[c] ELSE c

\* str.upper() of one character
UpperChar(c) ==
    IF c \in LowerCase THEN CHOOSE u \in UpperCase : LowerMap[u] = c ELSE c

CharAt(s, i) == SubSeq(s, i, i)

----------------------------------------------------------------------------
(* Regular expressions.  A pattern is a sequence of items:                 *)
(*   set    a character class repeated lo..hi times, greedy or lazy        *)
(*          (neg: the class is complemented)                               *)
(*   open   the start of capture group g                                   *)
(*   close  the end of capture group g                                     *)
(*   bol    ^        eol    $                                              *)
(*   alt    ordered alternatives, each a pattern: (?:A|B), and X? as       *)
(*          (?:X|) when greedy                                             *)

Inf == 1000

ItemOf(k, cs, neg, lo, hi, lazy, g, alts) ==
    [k |-> k, cs |-> cs, neg |-> neg, lo |-> lo, hi |-> hi, lazy |-> lazy,
     g |-> g, alts |-> alts]

\* [cs]{lo,hi}
Rep(cs, lo, hi) == <<ItemOf("set", cs, FALSE, lo, hi, FALSE, 0, <<>>)>>

\* [^cs]{lo,hi}
NRep(cs, lo, hi) == <<ItemOf("set", cs, TRUE, lo, hi, FALSE, 0, <<>>)>>

\* [cs]{lo,hi}?  (lazy)
LazyRep(cs, lo, hi) == <<ItemOf("set", cs, FALSE, lo, hi, TRUE, 0, <<>>)>>

\* . (any character but a newline) repeated lo..hi times, lazy
LazyDot(lo, hi) == <<ItemOf("set", {"\n"}, TRUE, lo, hi, TRUE, 0, <<>>)>>

\* a literal string, one item per character
Lit(str) == [i \in 1..Len(str) |->
                ItemOf("set", {CharAt(str, i)}, FALSE, 1, 1, FALSE, 0, <<>>)]

\* ( ... ) as capture group g
Grp(g, p) == <<ItemOf("open", {}, FALSE, 0, 0, FALSE, g, <<>>)>> \o p
             \o <<ItemOf("close", {}, FALSE, 0, 0, FALSE, g, <<>>)>>

\* (?:A|B|...)
Alt(alts) == <<ItemOf("alt", {}, FALSE, 0, 0, FALSE, 0, alts)>>

\* (?:X)?  (greedy: X is tried first)
Opt(p) == Alt(<<p, <<>>>>)

Bol == <<ItemOf("bol", {}, FALSE, 0, 0, FALSE, 0, <<>>)>>

Eol == <<ItemOf("eol", {}, FALSE, 0, 0, FALSE, 0, <<>>)>>

\* \s*   \s+   \d{lo,hi}
Ws0 == Rep(WhiteSpace, 0, Inf)

Ws1 == Rep(WhiteSpace, 1, Inf)

Dig(lo, hi) == Rep(Digit, lo, hi)

\* the capture groups of a match: group g spans caps[g][1] .. caps[g][2]-1
MaxGroups == 4

NoCaps == [g \in 1..MaxGroups |-> <<0, 0>>]

NoMatch == [ok |-> FALSE, start |-> 0, end |-> 0, caps |-> NoCaps]

\* does character c match a set item (ic: re.IGNORECASE, the classes of such a
\* pattern are written in lower case)
InClass(it, d) == IF it.neg THEN d \notin it.cs ELSE d \in it.cs

CharIn(it, c, ic) == InClass(it, IF ic THEN LowerChar(c) ELSE c)

\* the number of characters from position p on that match the set item, up to max
RECURSIVE Run(_, _, _, _, _, _)
Run(it, s, p, ic, n, max) ==
    IF n >= max \/ p + n > Len(s) THEN n
    ELSE IF CharIn(it, CharAt(s, p + n), ic) THEN Run(it, s, p, ic, n + 1, max)
    ELSE n

RECURSIVE MatchFrom(_, _, _, _, _, _)
RECURSIVE TryLen(_, _, _, _, _, _, _, _, _)
RECURSIVE TryAlt(_, _, _, _, _, _, _)
RECURSIVE TryRun(_, _, _, _, _, _, _)

\* the first match, in the priority order of a backtracking matcher, of items
\* i.. of the pattern at position p of s
MatchFrom(items, i, s, p, ic, caps) ==
    IF i > Len(items) THEN [ok |-> TRUE, start |-> 0, end |-> p, caps |-> caps]
    ELSE LET it == items[i] IN
      CASE it.k = "set" ->
             TryRun(items, i, s, p, ic, caps, Run(it, s, p, ic, 0, it.hi))
        [] it.k = "open" ->
             MatchFrom(items, i + 1, s, p, ic, [caps EXCEPT ![it.g] = <<p, p>>])
        [] it.k = "close" ->
             MatchFrom(items, i + 1, s, p, ic,
                       [caps EXCEPT ![it.g] = <<caps[it.g][1], p>>])
        [] it.k = "bol" ->
             IF p = 1 THEN MatchFrom(items, i + 1, s, p, ic, caps) ELSE NoMatch
        [] it.k = "eol" ->
             IF p = Len(s) + 1 THEN MatchFrom(items, i + 1, s, p, ic, caps)
             ELSE NoMatch
        [] it.k = "alt" -> TryAlt(items, i, s, p, ic, caps, 1)

\* a repeated class of which n characters are there
TryRun(items, i, s, p, ic, caps, n) ==
    IF n < items[i].lo THEN NoMatch
    ELSE TryLen(items, i, s, p, ic, caps, items[i].lo, n, items[i].lazy)

\* the lengths lo..hi of a repeated class, the shortest first when the class
\* is lazy, the longest first when it is greedy; the range is halved so that
\* the depth of the evaluation stays logarithmic in the length of the text
TryLen(items, i, s, p, ic, caps, lo, hi, lazy) ==
    IF lo = hi THEN MatchFrom(items, i + 1, s, p + lo, ic, caps)
    ELSE LET mid == (lo + hi) \div 2
             r == IF lazy THEN TryLen(items, i, s, p, ic, caps, lo, mid, lazy)
                  ELSE TryLen(items, i, s, p, ic, caps, mid + 1, hi, lazy)
         IN  IF r.ok THEN r
             ELSE IF lazy THEN TryLen(items, i, s, p, ic, caps, mid + 1, hi, lazy)
             ELSE TryLen(items, i, s, p, ic, caps, lo, mid, lazy)

\* the alternatives j.. of an alt item, in order, each followed by the rest
TryAlt(items, i, s, p, ic, caps, j) ==
    IF j > Len(items[i].alts) THEN NoMatch
    ELSE LET r == MatchFrom(items[i].alts[j] \o SubSeq(items, i + 1, Len(items)),
                            1, s, p, ic, caps) IN
         IF r.ok THEN r ELSE TryAlt(items, i, s, p, ic, caps, j + 1)

\* pattern.match(s): a match that starts at the first character
ReMatch(pat, s, ic) == MatchFrom(pat, 1, s, 1, ic, NoCaps)

\* can a match of the pattern start at position q: the character there fits
\* the pattern's first item, when that item is a class that must match at
\* least once (a filter that only spares the matcher work)
Candidates(pat, s, q, ic) ==
    IF Len(pat) > 0 /\ pat[1].k = "set" /\ pat[1].lo > 0
    THEN q <= Len(s) /\ CharIn(pat[1], CharAt(s, q), ic)
    ELSE TRUE

\* the match r, if it is one, as a match that starts at position q
StartingAt(r, q) == IF r.ok THEN [r EXCEPT !.start = q] ELSE NoMatch

\* the leftmost match that starts at one of the positions lo..hi; the range
\* is halved so that the depth of the evaluation stays logarithmic
RECURSIVE SearchIn(_, _, _, _, _)
SearchIn(pat, s, lo, hi, ic) ==
    IF lo > hi THEN NoMatch
    ELSE IF lo = hi
    THEN IF ~Candidates(pat, s, lo, ic) THEN NoMatch
         ELSE StartingAt(MatchFrom(pat, 1, s, lo, ic, NoCaps), lo)
    ELSE LET mid == (lo + hi) \div 2
             r == SearchIn(pat, s, lo, mid, ic)
         IN  IF r.ok THEN r ELSE SearchIn(pat, s, mid + 1, hi, ic)

\* pattern.search(s) from position p on
SearchFrom(pat, s, p, ic) == SearchIn(pat, s, p, Len(s) + 1, ic)

ReSearch(pat, s, ic) == SearchFrom(pat, s, 1, ic)

\* the text of capture group g of match r in s
Group(r, s, g) == SubSeq(s, r.caps[g][1], r.caps[g][2] - 1)

\* the successive non-overlapping matches of pattern.findall / finditer / sub
\* (no pattern of the source matches the empty string)
RECURSIVE MatchesIn(_, _, _, _)
RECURSIVE MatchesWith(_, _, _, _)
MatchesIn(pat, s, p, ic) == MatchesWith(pat, s, SearchFrom(pat, s, p, ic), ic)

\* the match r and the matches after it
MatchesWith(pat, s, r, ic) ==
    IF ~r.ok THEN <<>>
    ELSE <<r>> \o MatchesIn(pat, s, IF r.end = r.start THEN r.end + 1 ELSE r.end, ic)

AllMatches(pat, s, p, ic) == MatchesIn(pat, s, p, ic)

\* len(pattern.findall(s))
FindCount(pat, s, ic) == Len(AllMatches(pat, s, 1, ic))

\* pattern.sub(repl, s) for a replacement without group references
RECURSIVE SubFrom(_, _, _, _, _)
SubFrom(ms, k, s, p, repl) ==
    IF k > Len(ms) THEN SubSeq(s, p, Len(s))
    ELSE SubSeq(s, p, ms[k].start - 1) \o repl \o SubFrom(ms, k + 1, s, ms[k].end, repl)

ReSub(pat, repl, s, ic) == SubFrom(AllMatches(pat, s, 1, ic), 1, s, 1, repl)

----------------------------------------------------------------------------
(* Strings *)

\* str.strip(): the positions of the first and last non-blank character
RECURSIVE FirstNonBlank(_, _)
FirstNonBlank(s, i) ==
    IF i > Len(s) THEN i
    ELSE IF CharAt(s, i) \in WhiteSpace THEN FirstNonBlank(s, i + 1) ELSE i

RECURSIVE LastNonBlank(_, _)
LastNonBlank(s, i) ==
    IF i < 1 THEN i
    ELSE IF CharAt(s, i) \in WhiteSpace THEN LastNonBlank(s, i - 1) ELSE i

Strip(s) == SubSeq(s, FirstNonBlank(s, 1), LastNonBlank(s, Len(s)))

\* sub in s
Contains(s, sub) ==
    \E i \in 1..(Len(s) - Len(sub) + 1) : SubSeq(s, i, i + Len(sub) - 1) = sub

\* s with every character c replaced by f[c], a string; the text is halved
\* so that the depth of the evaluation stays logarithmic
RECURSIVE MapChars(_, _)
MapChars(s, f) ==
    IF Len(s) = 0 THEN ""
    ELSE IF Len(s) = 1 THEN (IF s \in DOMAIN f THEN f[s] ELSE s)
    ELSE LET mid == Len(s) \div 2
         IN  MapChars(SubSeq(s, 1, mid), f) \o MapChars(SubSeq(s, mid + 1, Len(s)), f)

\* str.upper()
Upper(s) == MapChars(s, [c \in LowerCase |-> UpperChar(c)])

\* str.lower()
Lower(s) == MapChars(s, [c \in UpperCase |-> LowerChar(c)])

\* s.startswith(pre)
StartsWith(s, pre) == Len(s) >= Len(pre) /\ SubSeq(s, 1, Len(pre)) = pre

\* any(keyword in s for keyword in keywords)
ContainsAny(s, keywords) == \E i \in 1..Len(keywords) : Contains(s, keywords[i])

\* s.split(sep) for a one-character separator
RECURSIVE SplitFrom(_, _, _)
SplitFrom(s, sep, from) ==
    LET seps == {i \in from..Len(s) : CharAt(s, i) = sep} IN
    IF seps = {} THEN <<SubSeq(s, from, Len(s))>>
    ELSE LET i == CHOOSE x \in seps : \A y \in seps : x <= y
         IN  <<SubSeq(s, from, i - 1)>> \o SplitFrom(s, sep, i + 1)

Split(s, sep) == SplitFrom(s, sep, 1)

\* s.split(): the words between runs of whitespace
RECURSIVE WordsFrom(_, _)
WordsFrom(s, i) ==
    LET b == FirstNonBlank(s, i) IN
    IF b > Len(s) THEN <<>>
    ELSE LET e == CHOOSE k \in b..Len(s) :
                    /\ \A j \in b..k : CharAt(s, j) \notin WhiteSpace
                    /\ (k = Len(s) \/ CharAt(s, k + 1) \in WhiteSpace)
         IN  <<SubSeq(s, b, e)>> \o WordsFrom(s, e + 1)

SplitWords(s) == WordsFrom(s, 1)

DigitValue(c) ==
    CASE c = "0" -> 0 [] c = "1" -> 1 [] c = "2" -> 2 [] c = "3" -> 3 [] c = "4" -> 4
      [] c = "5" -> 5 [] c = "6" -> 6 [] c = "7" -> 7 [] c = "8" -> 8 [] c = "9" -> 9

\* int(s) of a string of digits
RECURSIVE IntOf(_, _, _)
IntOf(s, i, acc) ==
    IF i > Len(s) THEN acc ELSE IntOf(s, i + 1, 10 * acc + DigitValue(CharAt(s, i)))

ToInt(s) == IntOf(s, 1, 0)

\* s.replace(c, "") for a character c
Without(s, c) == MapChars(s, [x \in {c} |-> ""])

----------------------------------------------------------------------------
(* Dates and amounts.  A date is <<year, month, day>>; an amount is kept   *)
(* in cents (5.67 is 567); ValueError stands for the exception of that     *)
(* name.                                                                   *)

ValueError == -1000000000

IsLeap(y) == (y % 4 = 0 /\ y % 100 # 0) \/ y % 400 = 0

DaysIn(y, m) ==
    IF m \in {4, 6, 9, 11} THEN 30
    ELSE IF m = 2 THEN (IF IsLeap(y) THEN 29 ELSE 28)
    ELSE 31

\* datetime.date(y, m, d) does not raise ValueError
ValidDate(y, m, d) ==
    /\ y >= 1 /\ y <= 9999
    /\ m >= 1 /\ m <= 12
    /\ d >= 1 /\ d <= DaysIn(y, m)

NoDate == <<0, 0, 0>>

\* date(y, m, d), NoDate when it raises
MakeDate(y, m, d) == IF ValidDate(y, m, d) THEN <<y, m, d>> ELSE NoDate

\* float(s) in cents, for a string digits [. digits{0,2}] as the amount
\* patterns capture it; ValueError when there is no digit at all
FloatOf(whole, frac) ==
    IF whole = "" /\ frac = "" THEN ValueError
    ELSE 100 * ToInt(whole) + (IF Len(frac) = 1 THEN 10 * ToInt(frac) ELSE ToInt(frac))

FloatParts(pieces) == FloatOf(pieces[1], IF Len(pieces) > 1 THEN pieces[2] ELSE "")

FloatCents(s) == FloatParts(Split(s, "."))

\* v unless it is none, alt then: the next try after a failed one
Otherwise(v, none, alt) == IF v # none THEN v ELSE alt

Abs(x) == IF x < 0 THEN -x ELSE x

----------------------------------------------------------------------------
(* Bank detection: services/bank_detection.py *)

\* BankType, in the order of the enumeration
BankType == <<"chase", "amex", "citibank", "bank_of_america", "capital_one",
              "wells_fargo", "discover", "banco_nacion", "generic">>

BankTypes == {BankType[i] : i \in 1..Len(BankType)}

GENERIC == "generic"

\* the words of a pattern such as chase\s*card\s*services: literals separated
\* by \s*
RECURSIVE Words(_)
Words(ws) ==
    IF Len(ws) = 1 THEN Lit(ws[1])
    ELSE Lit(ws[1]) \o Ws0 \o Words(Tail(ws))

\* self.bank_patterns, a dict: its keys in insertion order.  The patterns are
\* compiled with re.IGNORECASE; naci[oó]n is written for unaccented texts.
bank_order == <<"chase", "amex", "citibank", "bank_of_america", "capital_one",
                "wells_fargo", "discover", "banco_nacion">>

bank_patterns ==
    [chase |-> <<Words(<<"chase", "card", "services">>),
                 Words(<<"chase", "bank">>),
                 Words(<<"jp", "morgan", "chase">>),
                 Words(<<"chase.com">>),
                 Words(<<"chase", "credit", "card">>),
                 Words(<<"chase", "sapphire">>),
                 Words(<<"chase", "freedom">>),
                 Words(<<"chase", "slate">>)>>,
     amex |-> <<Words(<<"american", "express">>),
                Words(<<"amex">>),
                Words(<<"americanexpress.com">>),
                Words(<<"member", "since">>),
                Words(<<"membership", "rewards">>),
                Words(<<"centurion", "bank">>),
                Words(<<"amex", "card">>)>>,
     citibank |-> <<Words(<<"citibank">>),
                    Words(<<"citi", "card">>),
                    Words(<<"citicards">>),
                    Words(<<"citi.com">>),
                    Words(<<"citibank", "n.a.">>),
                    Words(<<"thank", "you", "points">>),
                    Words(<<"citi", "double", "cash">>)>>,
     bank_of_america |-> <<Words(<<"bank", "of", "america">>),
                           Words(<<"bankofamerica.com">>),
                           Words(<<"boa", "card">>),
                           Words(<<"merrill", "lynch">>),
                           Words(<<"cash", "rewards", "credit", "card">>)>>,
     capital_one |-> <<Words(<<"capital", "one">>),
                       Words(<<"capitalone.com">>),
                       Words(<<"venture", "card">>),
                       Words(<<"quicksilver">>),
                       Words(<<"savor", "card">>),
                       Words(<<"capital", "one", "bank">>)>>,
     wells_fargo |-> <<Words(<<"wells", "fargo">>),
                       Words(<<"wellsfargo.com">>),
                       Words(<<"propel", "card">>),
                       Words(<<"wells", "fargo", "bank">>),
                       Words(<<"cash", "wise">>)>>,
     discover |-> <<Words(<<"discover", "card">>),
                    Words(<<"discover", "bank">>),
                    Words(<<"discover.com">>),
                    Words(<<"cashback", "bonus">>),
                    Words(<<"discover", "it">>)>>,
     banco_nacion |-> <<Words(<<"banco", "nacion">>),
                        Words(<<"nacion", "bank">>),
                        Words(<<"mastercard", "gold">>),
                        Words(<<"nacion", "mastercard">>),
                        Words(<<"banco", "de", "la", "nacion">>),
                        Words(<<"bna", "mastercard">>),
                        Words(<<"compras", "del", "mes">>),
                        Words(<<"resumen", "de", "cuenta">>)>>]

\* self.secondary_indicators (compiled with re.IGNORECASE); a bank that is not
\* a key of the dict has none
secondary_indicators ==
    [chase |-> <<Words(<<"ultimate", "rewards">>),
                 Words(<<"pay", "chase">>),
                 Words(<<"chase", "online">>),
                 Words(<<"fraud", "prevention", "center">>)>>,
     amex |-> <<Words(<<"pay", "over", "time">>),
                Words(<<"platinum", "card">>),
                Words(<<"gold", "card">>),
                Words(<<"green", "card">>)>>,
     citibank |-> <<Words(<<"citi", "online">>),
                    Words(<<"price", "rewind">>),
                    Words(<<"citi", "concierge">>)>>,
     bank_of_america |-> <<>>,
     capital_one |-> <<>>,
     wells_fargo |-> <<>>,
     discover |-> <<>>,
     banco_nacion |-> <<>>]

\* re.sub(r'\s+', ' ', text.strip()), then re.sub(r'[^\w\s\.\-@]', ' ', ...)
_clean_text_for_detection(t) ==
    ReSub(NRep(WordChar \cup WhiteSpace \cup {".", "-", "@"}, 1, 1), " ",
          ReSub(Ws1, " ", Strip(t), FALSE), FALSE)

\* len(pattern.findall(text)) of each primary pattern of a bank
PatternCounts(clean, bank) ==
    [i \in 1..Len(bank_patterns[bank]) |->
        FindCount(bank_patterns[bank][i], clean, TRUE)]

\* the number of secondary indicators of a bank that pattern.search(text) finds
SecondaryCount(clean, bank) ==
    Cardinality({i \in 1..Len(secondary_indicators[bank]) :
                    ReSearch(secondary_indicators[bank][i], clean, TRUE).ok})

\* scores are kept in hundredths: 0.3 is 30
PerMatch == 30

PerPatternCap == 100

SecondaryBoost == 10

ScoreCap == 200

Min(a, b) == IF a < b THEN a ELSE b

\* (mutant) base_score = min(matches * 0.3, 1.0): the sum is lost
AddPatternScore_Assign(base, matches) == Min(matches * PerMatch, PerPatternCap)

\* one pass of "for pattern in patterns": base_score += min(matches * 0.3, 1.0)
AddPatternScore(base, matches) == base + Min(matches * PerMatch, PerPatternCap)

\* the primary loop: <<base_score, pattern_matches>> after patterns i..
RECURSIVE PrimaryLoop(_, _, _, _)
PrimaryLoop(cnts, i, base, k) ==
    IF i > Len(cnts) THEN <<base, k>>
    ELSE IF cnts[i] > 0
         THEN PrimaryLoop(cnts, i + 1, AddPatternScore(base, cnts[i]), k + 1)
         ELSE PrimaryLoop(cnts, i + 1, base, k)

\* if pattern_matches > 1: base_score *= 1.0 + (pattern_matches - 1) * 0.2
\* (base is a multiple of 10 hundredths, so the division is exact)
MultiPatternBoost(base, k) ==
    IF k > 1 THEN (base * (10 + (k - 1) * 2)) \div 10 ELSE base

\* (mutant) the secondary bonus is added before the multi-pattern multiplier
ScoreOf_ScaledSecondary(cnts, sec) ==
    LET loop == PrimaryLoop(cnts, 1, 0, 0)
    IN  Min(MultiPatternBoost(loop[1] + sec * SecondaryBoost, loop[2]), ScoreCap)

\* the score of a bank from its match counts and secondary matches
ScoreOf(cnts, sec) ==
    LET loop == PrimaryLoop(cnts, 1, 0, 0)
    IN  Min(MultiPatternBoost(loop[1], loop[2]) + sec * SecondaryBoost, ScoreCap)

_calculate_bank_score(clean, bank) ==
    ScoreOf(PatternCounts(clean, bank), SecondaryCount(clean, bank))

\* max(bank_scores, key=bank_scores.get) over the banks of order[i..] whose
\* score is > 0, in insertion order: the first bank with the greatest score
RECURSIVE BestFrom_LastMax(_, _, _)
\* (mutant) the last bank with the greatest score
BestFrom_LastMax(sc, i, best) ==
    IF i > Len(bank_order) THEN best
    ELSE LET b == bank_order[i] IN
         IF sc[b] > 0 /\ (best = "none" \/ sc[b] >= sc[best])
         THEN BestFrom_LastMax(sc, i + 1, b)
         ELSE BestFrom_LastMax(sc, i + 1, best)

RECURSIVE BestFrom(_, _, _)
BestFrom(sc, i, best) ==
    IF i > Len(bank_order) THEN best
    ELSE LET b == bank_order[i] IN
         IF sc[b] > 0 /\ (best = "none" \/ sc[b] > sc[best])
         THEN BestFrom(sc, i + 1, b)
         ELSE BestFrom(sc, i + 1, best)

\* (mutant) without "if not bank_scores": max() of an empty dict raises
SelectBank_NoEmptyCheck(sc, thr) ==
    LET best_bank == BestFrom(sc, 1, "none") IN
    IF best_bank = "none" THEN "ValueError"
    ELSE IF sc[best_bank] < thr THEN GENERIC
    ELSE best_bank

\* detect_bank after the scores are known
SelectBank(sc, thr) ==
    LET best_bank == BestFrom(sc, 1, "none") IN
    IF best_bank = "none" THEN GENERIC           \* if not bank_scores
    ELSE IF sc[best_bank] < thr THEN GENERIC
    ELSE best_bank

IsBlank(t) == Strip(t) = ""

\* bank_scores before the "if score > 0" filter, from the cleaned text
BankScores(clean) ==
    [b \in DOMAIN bank_patterns |-> _calculate_bank_score(clean, b)]

detect_bank(t, thr) ==
    IF IsBlank(t) THEN GENERIC           \* if not text or not text.strip()
    ELSE SelectBank(BankScores(_clean_text_for_detection(t)), thr)

----------------------------------------------------------------------------
(* The detection machine: a caller builds a text phrase by phrase, looks at *)
(* the per-bank details of it (get_bank_confidence_details) and calls       *)
(* detect_bank on it.  clean_text and scores are the locals clean_text and  *)
(* bank_scores of the two methods.                                          *)

LowThreshold == 30

Thresholds == {DefaultThreshold, LowThreshold}

MaxPhrases == 2

Phrases == {"CHASE CREDIT CARD STATEMENT ", "Account Number: 1234 ",
            "chase.com www.chase.com ", "AMERICAN EXPRESS ", "citibank ",
            "ultimate rewards ", "  "}

ZeroCounts == [b \in DOMAIN bank_patterns |-> [i \in 1..Len(bank_patterns[b]) |-> 0]]

ZeroSecs == [b \in DOMAIN bank_patterns |-> 0]

DetectInit ==
    /\ text = ""
    /\ clean_text = ""
    /\ parts = 0
    /\ counts = ZeroCounts
    /\ secs = ZeroSecs
    /\ scores = ZeroSecs
    /\ threshold = DefaultThreshold
    /\ detected = "none"
    /\ parser = "none"
    /\ transactions = <<>>
    /\ NoPipeline
    /\ NoAux

\* the caller extends the text by a phrase and asks for the details of it:
\* get_bank_confidence_details(text)
ConfidenceDetails(ph) ==
    /\ parts < MaxPhrases
    /\ text' = text \o ph
    /\ clean_text' = _clean_text_for_detection(text')
    /\ counts' = [b \in DOMAIN bank_patterns |-> PatternCounts(clean_text', b)]
    /\ secs' = [b \in DOMAIN bank_patterns |-> SecondaryCount(clean_text', b)]
    /\ scores' = [b \in DOMAIN bank_patterns |-> ScoreOf(counts'[b], secs'[b])]
    /\ parts' = parts + 1
    /\ detected' = "none"
    /\ UNCHANGED <<threshold, parser, transactions>>
    /\ UNCHANGED <<pipeline_vars, aux_vars>>

\* detect_bank(text, confidence_threshold)
DetectBank(thr) ==
    /\ threshold' = thr
    /\ IF IsBlank(text)
       THEN /\ detected' = GENERIC
            /\ UNCHANGED <<clean_text, scores>>
       ELSE /\ clean_text' = _clean_text_for_detection(text)
            /\ scores' = BankScores(clean_text')
            /\ detected' = SelectBank(scores', thr)
    /\ UNCHANGED <<text, counts, secs, parts, parser, transactions>>
    /\ UNCHANGED <<pipeline_vars, aux_vars>>

DetectNext ==
    \/ \E ph \in Phrases : ConfidenceDetails(ph)
    \/ \E thr \in Thresholds : DetectBank(thr)

SpecDetect == DetectInit /\ [][DetectNext]_vars

----------------------------------------------------------------------------
(* The scoring machine: the match counts of one bank grow one match at a   *)
(* time, and _calculate_bank_score is applied to them.                     *)

MaxCount == 4

MaxPatterns == 2

MaxSecondary == 2

\* no other bank than b has a match
OnlyBank(b) ==
    \A c \in DOMAIN bank_patterns \ {b} : counts[c] = ZeroCounts[c] /\ secs[c] = 0

ScoreInit ==
    /\ text = ""
    /\ clean_text = ""
    /\ parts = 0
    /\ counts = ZeroCounts
    /\ secs = ZeroSecs
    /\ scores = [b \in DOMAIN bank_patterns |-> ScoreOf(ZeroCounts[b], 0)]
    /\ threshold = DefaultThreshold
    /\ detected = "none"
    /\ parser = "none"
    /\ transactions = <<>>
    /\ NoPipeline
    /\ NoAux

\* the text gains one match of primary pattern i of bank b
OneMorePrimary(b, i) ==
    /\ OnlyBank(b)
    /\ i <= Len(bank_patterns[b])
    /\ counts[b][i] < MaxCount
    /\ counts' = [counts EXCEPT ![b][i] = @ + 1]
    /\ scores' = [scores EXCEPT ![b] = ScoreOf(counts'[b], secs[b])]
    /\ UNCHANGED <<text, clean_text, parts, secs, threshold, detected, parser, transactions>>
    /\ UNCHANGED <<pipeline_vars, aux_vars>>

\* the text gains a match of one more secondary indicator of bank b
OneMoreSecondary(b) ==
    /\ OnlyBank(b)
    /\ secs[b] < Min(MaxSecondary, Len(secondary_indicators[b]))
    /\ secs' = [secs EXCEPT ![b] = @ + 1]
    /\ scores' = [scores EXCEPT ![b] = ScoreOf(counts[b], secs'[b])]
    /\ UNCHANGED <<text, clean_text, parts, counts, threshold, detected, parser, transactions>>
    /\ UNCHANGED <<pipeline_vars, aux_vars>>

ScoreNext ==
    \/ \E b \in DOMAIN bank_patterns, i \in 1..MaxPatterns : OneMorePrimary(b, i)
    \/ \E b \in DOMAIN bank_patterns : OneMoreSecondary(b)

SpecScore == ScoreInit /\ [][ScoreNext]_vars

----------------------------------------------------------------------------
(* Claims about bank detection *)

NoBankMatches == \A b \in DOMAIN bank_patterns : scores[b] = 0

\* C1: detect_bank with the default threshold, on a text that contains
\* "CHASE CREDIT CARD STATEMENT" and "Account Number: 1234" and matches no
\* other Chase pattern, returns the Chase tag.  (The code scores the text 0.3
\* for Chase, below the threshold, and returns generic.)
C1_ChaseScenario ==
    (/\ detected # "none"
     /\ threshold = DefaultThreshold
     /\ Contains(text, "CHASE CREDIT CARD STATEMENT")
     /\ Contains(text, "Account Number: 1234")
     /\ counts.chase = <<0, 0, 0, 0, 1, 0, 0, 0>>
     /\ secs.chase = 0)
    => detected = "chase"

MaxScore == CHOOSE m \in {scores[b] : b \in DOMAIN bank_patterns} :
                \A b \in DOMAIN bank_patterns : scores[b] <= m

\* the first bank, in the order of the pattern table, whose score is the maximum
FirstBest == bank_order[CHOOSE i \in 1..Len(bank_order) :
                /\ scores[bank_order[i]] = MaxScore
                /\ \A j \in 1..(i - 1) : scores[bank_order[j]] # MaxScore]

\* C5: for a non-empty text, detect_bank returns generic when no bank scores
\* above 0; otherwise, with B the first bank of the pattern table among those
\* of maximal score, it returns B when B's score is at least the threshold
\* and generic when it is below.
C5_SelectionRule ==
    (detected # "none" /\ ~IsBlank(text)) =>
        detected = IF NoBankMatches THEN GENERIC
                   ELSE IF scores[FirstBest] >= threshold THEN FirstBest
                   ELSE GENERIC

\* a tie at the top is resolved for the bank that comes first in the table
C5_TieWitness ==
    /\ detected = "chase"
    /\ scores.chase = scores.citibank
    /\ scores.chase = MaxScore

\* C6: detect_bank returns a bank tag for every text, and generic for an
\* empty or whitespace-only text and for a text no bank pattern matches.
C6_DetectTotal ==
    detected # "none" =>
        /\ detected \in BankTypes
        /\ (IsBlank(text) \/ NoBankMatches) => detected = GENERIC

\* a text that is not blank and matches nothing was detected as generic
C6_NoMatchWitness ==
    detected = GENERIC /\ ~IsBlank(text) /\ NoBankMatches

\* the count vectors that are pointwise at most c
Below(c) ==
    LET few == {d \in [1..MaxPatterns -> 0..MaxCount] :
                   \A i \in 1..MaxPatterns : i \in DOMAIN c => d[i] <= c[i]}
    IN {[i \in DOMAIN c |-> IF i <= MaxPatterns THEN d[i] ELSE c[i]] : d \in few}

\* C7: with the same secondary matches, a bank's score for match counts that
\* are pattern by pattern at least those of another text is at least that
\* text's score.
C7_Monotone ==
    \A b \in DOMAIN bank_patterns :
        \A d \in Below(counts[b]) : ScoreOf(d, secs[b]) <= scores[b]

\* two patterns of a bank match, one of them more than once
C7_Witness ==
    /\ counts.chase[1] = 2
    /\ counts.chase[2] = 1
    /\ scores.chase = 108
    /\ ScoreOf([counts.chase EXCEPT ![2] = 0], secs.chase) = 60

----------------------------------------------------------------------------
(* The shared line parser: services/bank_parsers/base_parser.py            *)

TransactionTypes == {"purchase", "payment", "fee", "interest", "credit", "cash_advance"}

\* no Transaction (None); line_num records the line a Transaction came from
NoTxn == [ok |-> FALSE, date |-> NoDate, description |-> "", amount |-> 0,
          transaction_type |-> "", reference |-> "", line_num |-> 0]

\* Transaction(...) with its validators: description.strip(), round(amount, 2)
\* (an amount in cents is already rounded)
Transaction(d, desc, amt, type, ref, line_num) ==
    [ok |-> TRUE, date |-> d, description |-> Strip(desc), amount |-> amt,
     transaction_type |-> type, reference |-> ref, line_num |-> line_num]

date_patterns == <<
    Grp(1, Dig(1, 2)) \o Lit("/") \o Grp(2, Dig(1, 2)) \o Lit("/") \o Grp(3, Dig(2, 4)),
    Grp(1, Dig(1, 2)) \o Lit("-") \o Grp(2, Dig(1, 2)) \o Lit("-") \o Grp(3, Dig(2, 4)),
    Grp(1, Dig(2, 4)) \o Lit("-") \o Grp(2, Dig(1, 2)) \o Lit("-") \o Grp(3, Dig(1, 2)),
    Grp(1, Rep(Alpha, 3, 3)) \o Ws1 \o Grp(2, Dig(1, 2)) \o Rep({","}, 0, 1) \o Ws1
        \o Grp(3, Dig(2, 4)) >>

\* [0-9,]+\.?\d{0,2}
AmountNumber == Rep(Digit \cup {","}, 1, Inf) \o Rep({"."}, 0, 1) \o Dig(0, 2)

\* compiled with re.IGNORECASE
amount_patterns == <<
    Rep({"$"}, 0, 1) \o Ws0 \o Grp(1, AmountNumber) \o Ws0
        \o Opt(Alt(<<Lit("cr"), Lit("db")>>)),
    Grp(1, AmountNumber) \o Ws0 \o Rep({"$"}, 0, 1),
    Lit("$") \o Ws0 \o Grp(1, AmountNumber) >>

\* in dict order; compiled with re.IGNORECASE
transaction_type_patterns == <<
    [type |-> "payment",
     patterns |-> <<Lit("payment") \o Ws1 \o Lit("thank") \o Ws1 \o Lit("you"),
                    Lit("autopay"),
                    Lit("online") \o Ws1 \o Lit("payment"),
                    Lit("payment") \o Ws1 \o Lit("received")>>],
    [type |-> "fee",
     patterns |-> <<Lit("fee"), Lit("charge"),
                    Lit("annual") \o Ws1 \o Lit("fee"),
                    Lit("late") \o Ws1 \o Lit("fee"),
                    Lit("foreign") \o Ws1 \o Lit("transaction")>>],
    [type |-> "interest",
     patterns |-> <<Lit("interest"), Lit("finance") \o Ws1 \o Lit("charge"), Lit("apr")>>],
    [type |-> "cash_advance",
     patterns |-> <<Lit("cash") \o Ws1 \o Lit("advance"), Lit("atm"),
                    Lit("cash") \o Ws1 \o Lit("withdrawal")>>],
    [type |-> "credit",
     patterns |-> <<Lit("credit"), Lit("refund"), Lit("return")>>] >>

month_names == [jan |-> 1, feb |-> 2, mar |-> 3, apr |-> 4, may |-> 5, jun |-> 6,
                jul |-> 7, aug |-> 8, sep |-> 9, oct |-> 10, nov |-> 11, dec |-> 12]

\* names.get(key), 0 for None
MonthGet(names, key) == IF key \in DOMAIN names THEN names[key] ELSE 0

\* if year < 100: year += 2000
FullYear(y) == IF y < 100 THEN y + 2000 ELSE y

\* names.get(key) as the month of a date, NoDate for None
MonthDate(y, month, d) == IF month = 0 THEN NoDate ELSE MakeDate(y, month, d)

\* the date of one match of date pattern i, NoDate when date() raises or the
\* month name is unknown
DateOfMatch(i, g1, g2, g3) ==
    IF i = 4
    THEN MonthDate(FullYear(ToInt(g3)), MonthGet(month_names, SubSeq(Lower(g1), 1, 3)),
                   ToInt(g2))
    ELSE IF i = 3
    THEN MakeDate(FullYear(ToInt(g1)), ToInt(g2), ToInt(g3))
    ELSE MakeDate(FullYear(ToInt(g3)), ToInt(g1), ToInt(g2))

\* the date of the match of date pattern i in the line, NoDate without one
DateIn(i, line, match) ==
    IF ~match.ok THEN NoDate
    ELSE DateOfMatch(i, Group(match, line, 1), Group(match, line, 2),
                     Group(match, line, 3))

\* for pattern in self.date_patterns: the first pattern that gives a date
RECURSIVE ExtractDateFrom(_, _)
ExtractDateFrom(line, i) ==
    IF i > Len(date_patterns) THEN NoDate
    ELSE Otherwise(DateIn(i, line, ReSearch(date_patterns[i], line, FALSE)), NoDate,
                   ExtractDateFrom(line, i + 1))

_extract_date(line) == ExtractDateFrom(line, 1)

\* is_credit = 'CR' in line.upper() or line.count('-') > 0
IsCreditLine(line) == Contains(Upper(line), "CR") \/ Contains(line, "-")

NoAmount == ValueError

\* float(amount_str.replace(',', ''))
ParseAmount(amount_str) == FloatCents(Without(amount_str, ","))

\* the amount of the last of the matches (matches[-1]), NoAmount without one
LastAmount(line, matches) ==
    IF matches = <<>> THEN NoAmount
    ELSE ParseAmount(Group(matches[Len(matches)], line, 1))

\* for pattern in self.amount_patterns: the first pattern that gives an amount
RECURSIVE ExtractAmountFrom(_, _)
ExtractAmountFrom(line, i) ==
    IF i > Len(amount_patterns) THEN NoAmount
    ELSE Otherwise(LastAmount(line, AllMatches(amount_patterns[i], line, 1, TRUE)),
                   NoAmount, ExtractAmountFrom(line, i + 1))

\* the amount of _extract_amount (its is_credit is IsCreditLine)
_extract_amount(line) == ExtractAmountFrom(line, 1)

\* the substitutions of _extract_description, in the order they are made
Sub(pat, repl, ic) == [pat |-> pat, repl |-> repl, ic |-> ic]

description_subs ==
    [i \in 1..Len(date_patterns) |-> Sub(date_patterns[i], "", FALSE)]
    \o [i \in 1..Len(amount_patterns) |-> Sub(amount_patterns[i], "", TRUE)]
    \o << Sub(Ws0 \o Lit("cr") \o Ws0, "", TRUE),
          Sub(Ws0 \o Lit("db") \o Ws0, "", TRUE),
          Sub(Lit("$"), "", FALSE),
          Sub(Ws1, " ", FALSE) >>

\* description = re.sub(...) for the substitutions i.. in turn (none of them
\* changes an empty text)
RECURSIVE SubEach(_, _, _)
SubEach(subs, i, description) ==
    IF i > Len(subs) \/ Len(description) = 0 THEN description
    ELSE SubEach(subs, i + 1,
                 ReSub(subs[i].pat, subs[i].repl, description, subs[i].ic))

_extract_description(line) == Strip(SubEach(description_subs, 1, line))

RECURSIVE ClassifyFrom(_, _)
ClassifyFrom(description, i) ==
    IF i > Len(transaction_type_patterns) THEN "purchase"
    ELSE IF \E j \in 1..Len(transaction_type_patterns[i].patterns) :
                ReSearch(transaction_type_patterns[i].patterns[j], description, TRUE).ok
         THEN transaction_type_patterns[i].type
         ELSE ClassifyFrom(description, i + 1)

\* (mutant) the last type, in dict order, that has a matching pattern
_classify_transaction_type_LastMatch(description) ==
    LET matching == {i \in 1..Len(transaction_type_patterns) :
                        \E j \in 1..Len(transaction_type_patterns[i].patterns) :
                            ReSearch(transaction_type_patterns[i].patterns[j],
                                     description, TRUE).ok}
    IN  IF matching = {} THEN "purchase"
        ELSE transaction_type_patterns[CHOOSE i \in matching :
                                          \A j \in matching : j <= i].type

_classify_transaction_type(description) == ClassifyFrom(description, 1)

\* -abs(amount) for a credit, abs(amount) otherwise
SignedAmount(amount, credit) == IF credit THEN -Abs(amount) ELSE Abs(amount)

\* the Transaction of _parse_transaction_line once its type is known
TypedTransaction(transaction_date, amount, description, is_credit, transaction_type,
                 line_num) ==
    Transaction(transaction_date, description,
                SignedAmount(amount, is_credit \/ transaction_type \in {"payment", "credit"}),
                transaction_type, "", line_num)

\* None when the date, the amount or the description is missing
BaseTransaction(transaction_date, amount, description, is_credit, line_num) ==
    IF transaction_date = NoDate \/ amount = NoAmount \/ Strip(description) = ""
    THEN NoTxn
    ELSE TypedTransaction(transaction_date, amount, description, is_credit,
                          _classify_transaction_type(description), line_num)

_parse_transaction_line(line, line_num) ==
    BaseTransaction(_extract_date(line), _extract_amount(line),
                    _extract_description(line), IsCreditLine(line), line_num)

\* re.match(pattern, line, re.IGNORECASE) for some pattern of the list
MatchesAny(pats, line) == \E i \in 1..Len(pats) : ReMatch(pats[i], line, TRUE).ok

base_ignore_patterns == <<
    Lit("page") \o Ws1 \o Dig(1, Inf),
    Lit("statement") \o Ws1 \o Lit("date"),
    Lit("account") \o Ws1 \o Lit("number"),
    Lit("total") \o Ws1,
    Lit("balance") \o Ws1,
    Lit("previous") \o Ws1 \o Lit("balance"),
    Lit("new") \o Ws1 \o Lit("balance"),
    Ws0 \o Eol,
    Rep({"-"}, 1, Inf) \o Ws0 \o Eol,
    Rep({"="}, 1, Inf) \o Ws0 \o Eol >>

base_should_ignore_line(line) == MatchesAny(base_ignore_patterns, line)

----------------------------------------------------------------------------
(* services/bank_parsers/chase_parser.py *)

\* (.+?)
Lazy1 == LazyDot(1, Inf)

\* \d{1,2}/\d{1,2}
MonthSlashDay == Dig(1, 2) \o Lit("/") \o Dig(1, 2)

chase_transaction_patterns == <<
    Bol \o Grp(1, MonthSlashDay) \o Ws1 \o Grp(2, Lazy1) \o Ws1
        \o Grp(3, AmountNumber) \o Eol,
    Bol \o Grp(1, MonthSlashDay) \o Ws1 \o Grp(2, Lazy1) \o Ws1 \o Lit("$")
        \o Grp(3, AmountNumber) \o Eol,
    Bol \o Grp(1, MonthSlashDay \o Lit("/") \o Dig(2, 2)) \o Ws1 \o Grp(2, Lazy1) \o Ws1
        \o Grp(3, AmountNumber) \o Eol >>

\* a date string with slashes read as DD/MM
SlashDate_DayFirst(pieces, year, with_year) ==
    IF Len(pieces) = 2 THEN MakeDate(year, ToInt(pieces[2]), ToInt(pieces[1]))
    ELSE NoDate

\* the date of the pieces of date_str.split('/'): MM/DD of the given year, or
\* MM/DD/YY where the parser reads a year
SlashDate(pieces, year, with_year) ==
    IF Len(pieces) = 2 THEN MakeDate(year, ToInt(pieces[1]), ToInt(pieces[2]))
    ELSE IF Len(pieces) = 3 /\ with_year
         THEN MakeDate(FullYear(ToInt(pieces[3])), ToInt(pieces[1]), ToInt(pieces[2]))
    ELSE NoDate

_parse_chase_date(date_str, year) ==
    IF Contains(date_str, "/") THEN SlashDate(Split(date_str, "/"), year, TRUE)
    ELSE NoDate

\* the type of the first row of a keyword table with a keyword in the
\* upper-cased description, purchase without one
RECURSIVE KeywordType(_, _, _)
KeywordType(desc_upper, rows, i) ==
    IF i > Len(rows) THEN "purchase"
    ELSE IF ContainsAny(desc_upper, rows[i].keywords) THEN rows[i].type
    ELSE KeywordType(desc_upper, rows, i + 1)

chase_keywords == <<
    [type |-> "payment", keywords |-> <<"PAYMENT", "AUTOPAY", "THANK YOU">>],
    [type |-> "fee", keywords |-> <<"ANNUAL FEE", "LATE FEE", "OVERLIMIT">>],
    [type |-> "interest", keywords |-> <<"INTEREST", "FINANCE CHARGE">>],
    [type |-> "cash_advance", keywords |-> <<"CASH ADVANCE", "ATM WITHDRAWAL">>],
    [type |-> "credit", keywords |-> <<"CREDIT", "REFUND", "RETURN">>] >>

_classify_chase_transaction(description) ==
    KeywordType(Upper(description), chase_keywords, 1)

\* is_credit = description.upper().startswith('PAYMENT') or 'CREDIT' in ...
PaymentOrCredit(desc_upper) ==
    StartsWith(desc_upper, "PAYMENT") \/ Contains(desc_upper, "CREDIT")

\* the Transaction of a matched line, None when its date or amount is not one
ChaseTransaction(transaction_date, description, amount, line_num) ==
    IF transaction_date = NoDate \/ amount = ValueError THEN NoTxn
    ELSE Transaction(transaction_date, description,
                     IF PaymentOrCredit(Upper(description)) THEN -Abs(amount) ELSE amount,
                     _classify_chase_transaction(description), "", line_num)

ChaseMatch(match, line, year, line_num) ==
    IF ~match.ok THEN NoTxn
    ELSE ChaseTransaction(_parse_chase_date(Group(match, line, 1), year),
                          Strip(Group(match, line, 2)),
                          ParseAmount(Group(match, line, 3)), line_num)

\* for pattern in self.transaction_patterns, then the fallback to the base
\* parser logic
RECURSIVE ChaseFrom(_, _, _, _)
ChaseFrom(line, year, line_num, i) ==
    IF i > Len(chase_transaction_patterns)
    THEN _parse_transaction_line(line, line_num)
    ELSE Otherwise(ChaseMatch(ReMatch(chase_transaction_patterns[i], line, FALSE),
                              line, year, line_num),
                   NoTxn, ChaseFrom(line, year, line_num, i + 1))

_parse_chase_transaction(line, year, line_num) == ChaseFrom(line, year, line_num, 1)

chase_ignore_patterns == <<
    Lit("chase"), Lit("customer service"), Lit("account summary"),
    Lit("previous balance"), Lit("payments and credits"), Lit("purchases"),
    Lit("fees"), Lit("interest charged"), Lit("page ") \o Dig(1, Inf) >>

chase_should_ignore_line(line) ==
    MatchesAny(chase_ignore_patterns, line) \/ base_should_ignore_line(line)

\* 20\d{2}
YearPattern == Lit("20") \o Dig(2, 2)

DefaultYear == 2024

\* the first 20dd of the first line that has one (the leftmost in the text),
\* 2024 when there is none
YearOf(t, year_match) ==
    IF year_match.ok THEN ToInt(SubSeq(t, year_match.start, year_match.end - 1))
    ELSE DefaultYear

FirstYear(t) == YearOf(t, ReSearch(YearPattern, t, FALSE))

----------------------------------------------------------------------------
(* services/bank_parsers/amex_parser.py *)

\* [A-Za-z]{3}\s+\d{1,2}
MonthNameDay == Rep(Alpha, 3, 3) \o Ws1 \o Dig(1, 2)

amex_transaction_patterns == <<
    Bol \o Grp(1, MonthNameDay) \o Ws1 \o Grp(2, Lazy1) \o Ws1 \o Rep({"$"}, 0, 1)
        \o Grp(3, AmountNumber) \o Eol,
    Bol \o Grp(1, MonthSlashDay) \o Ws1 \o Grp(2, Lazy1) \o Ws1 \o Lit("$")
        \o Grp(3, AmountNumber) \o Eol,
    Bol \o Grp(1, MonthNameDay) \o Ws1 \o Grp(2, Lazy1) \o Ws1
        \o Grp(3, Rep(UpperCase \cup Digit, 1, Inf)) \o Ws1 \o Rep({"$"}, 0, 1)
        \o Grp(4, AmountNumber) \o Eol >>

\* "MMM DD" of the given year
MonthNamePieces(pieces, year) ==
    IF Len(pieces) # 2 THEN NoDate
    ELSE MonthDate(year, MonthGet(month_names, SubSeq(Lower(pieces[1]), 1, 3)),
                   ToInt(pieces[2]))

MonthNameDate(date_str, year) == MonthNamePieces(SplitWords(date_str), year)

_parse_amex_date(date_str, year) ==
    IF Contains(date_str, "/") THEN SlashDate(Split(date_str, "/"), year, FALSE)
    ELSE MonthNameDate(date_str, year)

amex_keywords == <<
    [type |-> "payment", keywords |-> <<"PAYMENT", "AUTOPAY", "THANK YOU", "ONLINE PMT">>],
    [type |-> "fee", keywords |-> <<"ANNUAL FEE", "LATE FEE", "RETURN FEE">>],
    [type |-> "interest", keywords |-> <<"INTEREST", "FINANCE CHARGE", "PLAN FEES">>],
    [type |-> "cash_advance", keywords |-> <<"CASH ADVANCE", "ATM">>],
    [type |-> "credit", keywords |-> <<"CREDIT", "REFUND", "ADJUSTMENT">>] >>

_classify_amex_transaction(description) ==
    KeywordType(Upper(description), amex_keywords, 1)

\* the Transaction of a matched line, None when its date or amount is not one
AmexTransaction(transaction_date, description, reference, amount, line_num) ==
    IF transaction_date = NoDate \/ amount = ValueError THEN NoTxn
    ELSE Transaction(transaction_date, description,
                     IF PaymentOrCredit(Upper(description)) \/ amount < 0
                     THEN -Abs(amount) ELSE amount,
                     _classify_amex_transaction(description), reference, line_num)

\* pattern 3 has a reference group before the amount
AmexMatch(match, i, line, year, line_num) ==
    IF ~match.ok THEN NoTxn
    ELSE AmexTransaction(_parse_amex_date(Group(match, line, 1), year),
                         Strip(Group(match, line, 2)),
                         IF i = 3 THEN Group(match, line, 3) ELSE "",
                         ParseAmount(Group(match, line, IF i = 3 THEN 4 ELSE 3)),
                         line_num)

\* for pattern in self.transaction_patterns, then the fallback to the base
\* parser logic
RECURSIVE AmexFrom(_, _, _, _)
AmexFrom(line, year, line_num, i) ==
    IF i > Len(amex_transaction_patterns)
    THEN _parse_transaction_line(line, line_num)
    ELSE Otherwise(AmexMatch(ReMatch(amex_transaction_patterns[i], line, FALSE),
                             i, line, year, line_num),
                   NoTxn, AmexFrom(line, year, line_num, i + 1))

_parse_amex_transaction(line, year, line_num) == AmexFrom(line, year, line_num, 1)

amex_ignore_patterns == <<
    Lit("american express"),
    Lit("member") \o Ws1 \o Lit("since"),
    Lit("account") \o Ws1 \o Lit("summary"),
    Lit("previous") \o Ws1 \o Lit("balance"),
    Lit("payments") \o Ws1 \o Lit("and") \o Ws1 \o Lit("credits"),
    Lit("purchases") \o Ws1 \o Lit("and") \o Ws1 \o Lit("adjustments"),
    Lit("fees"),
    Lit("interest") \o Ws1 \o Lit("and") \o Ws1 \o Lit("finance") \o Ws1 \o Lit("charges"),
    Lit("page") \o Ws1 \o Dig(1, Inf),
    Lit("statement") \o Ws1 \o Lit("date"),
    Lit("payment") \o Ws1 \o Lit("due") \o Ws1 \o Lit("date"),
    Lit("membership") \o Ws1 \o Lit("rewards") >>

amex_should_ignore_line(line) ==
    MatchesAny(amex_ignore_patterns, line) \/ base_should_ignore_line(line)

----------------------------------------------------------------------------
(* services/bank_parsers/generic_parser.py *)

\* (?:\s*(CR|DB))?  with the indicator as group 4
CreditIndicator == Opt(Ws0 \o Grp(4, Alt(<<Lit("CR"), Lit("DB")>>)))

\* \d{1,2}/\d{1,2}(?:/\d{2,4})?
SlashDateText == MonthSlashDay \o Opt(Lit("/") \o Dig(2, 4))

transaction_line_patterns == <<
    Bol \o Grp(1, SlashDateText) \o Ws1 \o Grp(2, Lazy1) \o Ws1 \o Lit("$")
        \o Grp(3, AmountNumber) \o CreditIndicator \o Eol,
    Bol \o Grp(1, SlashDateText) \o Ws1 \o Grp(2, Lazy1) \o Ws1
        \o Grp(3, AmountNumber) \o CreditIndicator \o Eol,
    Bol \o Grp(1, MonthNameDay) \o Ws1 \o Grp(2, Lazy1) \o Ws1 \o Rep({"$"}, 0, 1)
        \o Grp(3, AmountNumber) \o CreditIndicator \o Eol >>

_parse_generic_date(date_str, year) ==
    IF Contains(date_str, "/") THEN SlashDate(Split(date_str, "/"), year, TRUE)
    ELSE MonthNameDate(date_str, year)

generic_keywords == <<
    [type |-> "payment", keywords |-> <<"PAYMENT", "PAY", "AUTOPAY", "THANK YOU">>],
    [type |-> "fee", keywords |-> <<"FEE", "CHARGE", "ANNUAL", "LATE">>],
    [type |-> "interest", keywords |-> <<"INTEREST", "FINANCE", "APR">>],
    [type |-> "cash_advance", keywords |-> <<"CASH ADVANCE", "ATM", "WITHDRAWAL">>],
    [type |-> "credit", keywords |-> <<"CREDIT", "REFUND", "RETURN", "ADJUSTMENT">>] >>

_classify_generic_transaction(description) ==
    KeywordType(Upper(description), generic_keywords, 1)

\* the Transaction of a matched line, None when its date or amount is not one
GenericTransaction(transaction_date, description, amount, credit_indicator, line_num) ==
    IF transaction_date = NoDate \/ amount = ValueError THEN NoTxn
    ELSE Transaction(transaction_date, description,
                     IF \/ credit_indicator = "CR"
                        \/ PaymentOrCredit(Upper(description))
                        \/ Contains(Upper(description), "REFUND")
                     THEN -Abs(amount) ELSE amount,
                     _classify_generic_transaction(description), "", line_num)

GenericMatch(match, line, year, line_num) ==
    IF ~match.ok THEN NoTxn
    ELSE GenericTransaction(_parse_generic_date(Group(match, line, 1), year),
                            Strip(Group(match, line, 2)),
                            ParseAmount(Group(match, line, 3)),
                            Group(match, line, 4), line_num)

\* for pattern in self.transaction_line_patterns, then the fallback to the
\* base parser logic
RECURSIVE GenericFrom(_, _, _, _)
GenericFrom(line, year, line_num, i) ==
    IF i > Len(transaction_line_patterns)
    THEN _parse_transaction_line(line, line_num)
    ELSE Otherwise(GenericMatch(ReMatch(transaction_line_patterns[i], line, FALSE),
                                line, year, line_num),
                   NoTxn, GenericFrom(line, year, line_num, i + 1))

_parse_generic_transaction(line, year, line_num) == GenericFrom(line, year, line_num, 1)

generic_ignore_patterns == <<
    Lit("page") \o Ws1 \o Dig(1, Inf),
    Lit("statement") \o Ws1 \o Lit("date"),
    Lit("account") \o Ws1 \o Lit("number"),
    Lit("payment") \o Ws1 \o Lit("due"),
    Lit("previous") \o Ws1 \o Lit("balance"),
    Lit("new") \o Ws1 \o Lit("balance"),
    Lit("total") \o Ws1,
    Lit("summary"),
    Lit("customer") \o Ws1 \o Lit("service"),
    Lit("questions?"),
    Lit("visit") \o Ws1 \o Lit("us"),
    Lit("call") \o Ws1 \o Lit("us"),
    Lit("www."),
    Lit("http"),
    Dig(1, Inf) \o Ws0 \o Eol,
    Rep({"-"}, 1, Inf) \o Ws0 \o Eol,
    Rep({"="}, 1, Inf) \o Ws0 \o Eol,
    Ws0 \o Eol >>

generic_should_ignore_line(line) ==
    MatchesAny(generic_ignore_patterns, line) \/ base_should_ignore_line(line)

\* the text of each match
MatchTexts(ms, t) == [k \in 1..Len(ms) |-> SubSeq(t, ms[k].start, ms[k].end - 1)]

\* the number of times y is among the years
YearCount(year_matches, y) ==
    Cardinality({k \in 1..Len(year_matches) : year_matches[k] = y})

\* Counter(year_matches).most_common(1)[0][0]: the most frequent year, the
\* one met first among equally frequent ones; 2024 when there is no year
MostCommonYear(year_matches) ==
    IF year_matches = <<>> THEN DefaultYear
    ELSE ToInt(year_matches[
             CHOOSE k \in 1..Len(year_matches) :
                 /\ \A j \in 1..Len(year_matches) :
                        YearCount(year_matches, year_matches[j])
                            <= YearCount(year_matches, year_matches[k])
                 /\ \A j \in 1..(k - 1) :
                        YearCount(year_matches, year_matches[j])
                            < YearCount(year_matches, year_matches[k])])

_detect_year(t) == MostCommonYear(MatchTexts(AllMatches(YearPattern, t, 1, FALSE), t))

----------------------------------------------------------------------------
(* services/bank_parsers/banco_nacion_parser.py *)

transaction_pattern ==
    Grp(1, Dig(2, 2) \o Lit("-") \o Rep(Alpha, 3, 3) \o Rep({"."}, 0, 1) \o Lit("-")
           \o Dig(2, 2))
    \o Ws1 \o Grp(2, Lazy1) \o Ws1 \o Grp(3, Dig(5, 5)) \o Ws1
    \o Grp(4, Rep(Digit \cup {"."}, 1, Inf) \o Lit(",") \o Dig(2, 2)) \o Eol

spanish_month_names ==
    [ene |-> 1, feb |-> 2, mar |-> 3, abr |-> 4, may |-> 5, jun |-> 6, jul |-> 7,
     ago |-> 8, sep |-> 9, oct |-> 10, nov |-> 11, dic |-> 12,
     enero |-> 1, febrero |-> 2, marzo |-> 3, abril |-> 4, mayo |-> 5, junio |-> 6,
     julio |-> 7, agosto |-> 8, septiembre |-> 9, setiembre |-> 9, octubre |-> 10,
     noviembre |-> 11, diciembre |-> 12]

\* COMPRAS\s+DEL\s+MES, re.IGNORECASE
transaction_section_start == Lit("compras") \o Ws1 \o Lit("del") \o Ws1 \o Lit("mes")

\* (?:TOTAL\s+COMPRAS|RESUMEN\s+DE\s+CUENTA|DETALLE\s+DE\s+PAGOS), re.IGNORECASE
transaction_section_end ==
    Alt(<<Lit("total") \o Ws1 \o Lit("compras"),
          Lit("resumen") \o Ws1 \o Lit("de") \o Ws1 \o Lit("cuenta"),
          Lit("detalle") \o Ws1 \o Lit("de") \o Ws1 \o Lit("pagos")>>)

\* s.rstrip('.')
RECURSIVE RStripDots(_)
RStripDots(s) ==
    IF s # "" /\ CharAt(s, Len(s)) = "." THEN RStripDots(SubSeq(s, 1, Len(s) - 1)) ELSE s

\* years 00-50 are 20xx, years 51-99 are 19xx
CenturyYear(y) == IF y >= 100 THEN y ELSE IF y <= 50 THEN y + 2000 ELSE y + 1900

BancoNacionDate(pieces) ==
    IF Len(pieces) # 3 THEN NoDate
    ELSE MonthDate(CenturyYear(ToInt(pieces[3])),
                   MonthGet(spanish_month_names, Lower(RStripDots(pieces[2]))),
                   ToInt(pieces[1]))

_parse_banco_nacion_date(date_str) == BancoNacionDate(Split(date_str, "-"))

\* s.replace(old, new)
RECURSIVE Replace(_, _, _)
Replace(s, old, new) ==
    LET found == {i \in 1..(Len(s) - Len(old) + 1) : SubSeq(s, i, i + Len(old) - 1) = old} IN
    IF found = {} THEN s
    ELSE LET i == CHOOSE x \in found : \A y \in found : x <= y
         IN  SubSeq(s, 1, i - 1) \o new \o Replace(SubSeq(s, i + Len(old), Len(s)), old, new)

\* a float with its decimals: coef / 10^places, without trailing zeros
\* after the point; NoFloat is None
RECURSIVE Decimal(_, _)
Decimal(coef, places) ==
    IF places > 0 /\ coef % 10 = 0 THEN Decimal(coef \div 10, places - 1)
    ELSE [coef |-> coef, places |-> places]

NoFloat == [coef |-> 0, places |-> -1]

\* float(digits [. digits]) for the pieces around the point; ValueError
\* (NoFloat) for more than one point, for another character and for no
\* digit at all
UnsignedFloat(pieces) ==
    IF Len(pieces) > 2 THEN NoFloat
    ELSE LET whole == pieces[1]
             frac == IF Len(pieces) = 2 THEN pieces[2] ELSE ""
         IN  IF whole \o frac = "" \/ \E i \in 1..Len(whole \o frac) :
                                          CharAt(whole \o frac, i) \notin Digit
             THEN NoFloat
             ELSE Decimal(ToInt(whole \o frac), Len(frac))

Negated(v) == IF v = NoFloat THEN NoFloat ELSE [coef |-> -v.coef, places |-> v.places]

\* float(s) for a string of digits, points, signs, blanks and other
\* characters that are no part of a number
SignedFloat(s) ==
    IF s = "" THEN NoFloat
    ELSE IF CharAt(s, 1) = "-" THEN Negated(UnsignedFloat(Split(SubSeq(s, 2, Len(s)), ".")))
    ELSE IF CharAt(s, 1) = "+" THEN UnsignedFloat(Split(SubSeq(s, 2, Len(s)), "."))
    ELSE UnsignedFloat(Split(s, "."))

Float(s) == SignedFloat(Strip(s))

\* the rewriting of _parse_banco_nacion_amount: the comma becomes a
\* placeholder, the dots go, the placeholder becomes the point
Rewritten_KeepDots(amount_str) ==
    Replace(Replace(amount_str, ",", "|DECIMAL|"), "|DECIMAL|", ".")

Rewritten(amount_str) ==
    Replace(Replace(Replace(amount_str, ",", "|DECIMAL|"), ".", ""), "|DECIMAL|", ".")

\* "123.456,78" is 123456.78; None (NoFloat) for what float() does not take
_parse_banco_nacion_amount(amount_str) == Float(Rewritten(Strip(amount_str)))

RECURSIVE Pow10(_)
Pow10(n) == IF n = 0 THEN 1 ELSE 10 * Pow10(n - 1)

\* an amount of at most two decimals in cents, ValueError for None
AmountCents(v) == IF v = NoFloat THEN ValueError ELSE v.coef * Pow10(2 - v.places)

banco_nacion_keywords == <<
    [type |-> "payment", keywords |-> <<"PAGO", "PAYMENT", "ACREDITACION", "CREDIT">>],
    [type |-> "interest", keywords |-> <<"INTERES", "INTEREST", "FINANCIACION">>],
    [type |-> "fee", keywords |-> <<"COMISION", "FEE", "CARGO", "ANUAL">>],
    [type |-> "cash_advance", keywords |-> <<"ADELANTO", "CASH", "ATM", "CAJERO">>],
    [type |-> "credit", keywords |-> <<"DEVOLUCION", "REFUND", "NOTA CREDITO">>] >>

_classify_banco_nacion_transaction(description) ==
    KeywordType(Upper(description), banco_nacion_keywords, 1)

\* the Transaction of a matched line once its type is known
BancoNacionTyped(transaction_date, description, amount, transaction_type, reference,
                 line_num) ==
    Transaction(transaction_date, description,
                SignedAmount(amount, transaction_type \in {"payment", "credit"}),
                transaction_type, reference, line_num)

\* None when the date, the description or the amount is not one
BancoNacionTransaction(transaction_date, description, amount, reference, line_num) ==
    IF transaction_date = NoDate \/ description = "" \/ amount = ValueError THEN NoTxn
    ELSE BancoNacionTyped(transaction_date, description, amount,
                          _classify_banco_nacion_transaction(description), reference,
                          line_num)

BancoNacionMatch(match, line, line_num) ==
    IF ~match.ok THEN NoTxn
    ELSE BancoNacionTransaction(_parse_banco_nacion_date(Group(match, line, 1)),
                                Strip(Group(match, line, 2)),
                                AmountCents(_parse_banco_nacion_amount(Group(match, line, 4))),
                                Group(match, line, 3), line_num)

_parse_banco_nacion_transaction(line, line_num) ==
    BancoNacionMatch(ReMatch(transaction_pattern, line, TRUE), line, line_num)

----------------------------------------------------------------------------
(* utils/data_cleaner.py: the description of a cleaned transaction *)

\* X\s*\d* for the words X
Numbered(ws) == Words(ws) \o Ws0 \o Dig(0, Inf)

\* self.merchant_standardizations, a dict: its items in insertion order; the
\* patterns are compiled with re.IGNORECASE
merchant_standardizations == <<
    Sub(Numbered(<<"shell">>), "Shell", TRUE),
    Sub(Numbered(<<"exxon", "mobil">>), "ExxonMobil", TRUE),
    Sub(Numbered(<<"bp">>), "BP", TRUE),
    Sub(Numbered(<<"chevron">>), "Chevron", TRUE),
    Sub(Numbered(<<"texaco">>), "Texaco", TRUE),
    Sub(Numbered(<<"walmart", "supercenter">>), "Walmart", TRUE),
    Sub(Numbered(<<"target">>), "Target", TRUE),
    Sub(Numbered(<<"kroger">>), "Kroger", TRUE),
    Sub(Numbered(<<"safeway">>), "Safeway", TRUE),
    Sub(Numbered(<<"whole", "foods">>), "Whole Foods", TRUE),
    Sub(Lit("mcdonald") \o Rep({"'"}, 0, 1) \o Lit("s") \o Ws0 \o Dig(0, Inf),
        "McDonald's", TRUE),
    Sub(Numbered(<<"starbucks">>), "Starbucks", TRUE),
    Sub(Numbered(<<"subway">>), "Subway", TRUE),
    Sub(Numbered(<<"taco", "bell">>), "Taco Bell", TRUE),
    Sub(Numbered(<<"pizza", "hut">>), "Pizza Hut", TRUE),
    Sub(Lit("amazon.com") \o Rep({"*"}, 0, 1) \o Rep(WordChar, 0, Inf), "Amazon", TRUE),
    Sub(Words(<<"amzn", "mktp", "us">>), "Amazon", TRUE),
    Sub(Lit("paypal") \o Ws0 \o Rep({"*"}, 0, 1) \o Rep(WordChar, 0, Inf), "PayPal", TRUE),
    Sub(Lit("netflix.com"), "Netflix", TRUE),
    Sub(Lit("spotify") \o Ws0 \o Rep(WordChar, 0, Inf), "Spotify", TRUE),
    Sub(Numbered(<<"electric", "company">>), "Electric Company", TRUE),
    Sub(Numbered(<<"gas", "company">>), "Gas Company", TRUE),
    Sub(Numbered(<<"water", "dept">>), "Water Department", TRUE) >>

\* noise_patterns of clean_description, each removed with re.IGNORECASE
noise_patterns == <<
    Sub(Bol \o Dig(2, 2) \o Lit("/") \o Dig(2, 2) \o Ws0, "", TRUE),
    Sub(Ws0 \o Dig(4, 4) \o Ws0 \o Eol, "", TRUE),
    Sub(Rep({"#", "*"}, 1, Inf) \o Dig(0, Inf), "", TRUE),
    Sub(Ws0 \o Lit("$") \o Dig(1, Inf) \o Rep({"."}, 0, 1) \o Dig(0, Inf) \o Ws0, "", TRUE),
    Sub(Ws1 \o Eol, "", TRUE),
    Sub(Bol \o Ws1, "", TRUE) >>

Abbreviations == {"ATM", "POS", "ACH", "API", "LLC", "INC", "USA", "US"}

_get_state_abbreviations ==
    {"AL", "AK", "AZ", "AR", "CA", "CO", "CT", "DE", "FL", "GA",
     "HI", "ID", "IL", "IN", "IA", "KS", "KY", "LA", "ME", "MD",
     "MA", "MI", "MN", "MS", "MO", "MT", "NE", "NV", "NH", "NJ",
     "NM", "NY", "NC", "ND", "OH", "OK", "OR", "PA", "RI", "SC",
     "SD", "TN", "TX", "UT", "VT", "VA", "WA", "WV", "WI", "WY"}

\* word.capitalize()
Capitalize(word) ==
    IF Len(word) = 0 THEN ""
    ELSE Upper(CharAt(word, 1)) \o Lower(SubSeq(word, 2, Len(word)))

\* the case of a word of a cleaned description
NormalizeWord(word) ==
    IF Upper(word) \in Abbreviations THEN Upper(word)
    ELSE IF Len(word) = 2 /\ Upper(word) \in _get_state_abbreviations THEN Upper(word)
    ELSE Capitalize(word)

\* ' '.join(words[i..])
RECURSIVE JoinFrom(_, _)
JoinFrom(words, i) ==
    IF i > Len(words) THEN ""
    ELSE IF i = Len(words) THEN words[i]
    ELSE words[i] \o " " \o JoinFrom(words, i + 1)

\* ' '.join(normalized_words)
NormalizeWords(words) == JoinFrom([i \in 1..Len(words) |-> NormalizeWord(words[i])], 1)

clean_description(description) ==
    IF Len(description) = 0 THEN ""
    ELSE NormalizeWords(SplitWords(SubEach(<<Sub(Ws1, " ", FALSE)>> \o noise_patterns, 1,
                                           Strip(description))))

\* the first pattern of the dict that is found in the description replaces
\* all its matches
RECURSIVE StandardizeFrom(_, _)
StandardizeFrom(description, i) ==
    IF i > Len(merchant_standardizations) THEN description
    ELSE IF ReSearch(merchant_standardizations[i].pat, description, TRUE).ok
    THEN ReSub(merchant_standardizations[i].pat, merchant_standardizations[i].repl,
               description, TRUE)
    ELSE StandardizeFrom(description, i + 1)

standardize_merchant_name(description) == StandardizeFrom(description, 1)

\* the description that clean_transaction gives the cleaned transaction
\* ("" when it drops the transaction for an empty description)
StandardizedOrDropped(cleaned_description) ==
    IF Strip(cleaned_description) = "" THEN ""
    ELSE standardize_merchant_name(cleaned_description)

CleanedDescription(description) == StandardizedOrDropped(clean_description(description))

----------------------------------------------------------------------------
(* extract_transactions of each parser, and the parsing machine: a caller  *)
(* builds a statement text line by line and hands it to a parser.          *)

Parsers == {"BaseStatementParser", "ChaseParser", "AmexParser", "GenericParser"}

\* self._should_ignore_line(line), with the parser's override
should_ignore_line(p, line) ==
    CASE p = "ChaseParser" -> chase_should_ignore_line(line)
      [] p = "AmexParser" -> amex_should_ignore_line(line)
      [] p = "GenericParser" -> generic_should_ignore_line(line)
      [] OTHER -> base_should_ignore_line(line)

\* the line parser that the parser's extract_transactions calls
parse_line(p, line, year, line_num) ==
    CASE p = "ChaseParser" -> _parse_chase_transaction(line, year, line_num)
      [] p = "AmexParser" -> _parse_amex_transaction(line, year, line_num)
      [] p = "GenericParser" -> _parse_generic_transaction(line, year, line_num)
      [] OTHER -> _parse_transaction_line(line, line_num)

\* current_year of the parser's extract_transactions
statement_year(p, t) ==
    CASE p = "GenericParser" -> _detect_year(t)
      [] p \in {"ChaseParser", "AmexParser"} -> FirstYear(t)
      [] OTHER -> 0

\* the Transaction of one stripped line, None for an empty or ignored line
LineTransaction(p, line, year, line_num) ==
    IF line = "" \/ should_ignore_line(p, line) THEN NoTxn
    ELSE parse_line(p, line, year, line_num)

\* transactions.append(transaction) if there is one
Found(transaction) == IF transaction.ok THEN <<transaction>> ELSE <<>>

\* for line_num, line in enumerate(lines): the lines i.. (line_num is i - 1)
RECURSIVE ExtractFrom(_, _, _, _)
ExtractFrom(p, lines, i, year) ==
    IF i > Len(lines) THEN <<>>
    ELSE Found(LineTransaction(p, Strip(lines[i]), year, i - 1))
         \o ExtractFrom(p, lines, i + 1, year)

extract_transactions(p, t) == ExtractFrom(p, Split(t, "\n"), 1, statement_year(p, t))

\* (mutant) without the "continue" after the section start is found: the
\* marker line goes on to the line parser
SectionStep_NoContinue(line, in_transaction_section) ==
    IF ReSearch(transaction_section_start, line, TRUE).ok
    THEN [section |-> TRUE, parse |-> TRUE]
    ELSE IF ReSearch(transaction_section_end, line, TRUE).ok
    THEN [section |-> FALSE, parse |-> FALSE]
    ELSE [section |-> in_transaction_section, parse |-> in_transaction_section]

\* what the Banco Nacion loop does with a non-empty line: the section flag
\* after it, and whether the line is handed to the line parser
SectionStep(line, in_transaction_section) ==
    IF ReSearch(transaction_section_start, line, TRUE).ok
    THEN [section |-> TRUE, parse |-> FALSE]
    ELSE IF ReSearch(transaction_section_end, line, TRUE).ok
    THEN [section |-> FALSE, parse |-> FALSE]
    ELSE [section |-> in_transaction_section, parse |-> in_transaction_section]

\* the loop body for a stripped line: the Transaction of the line, if any,
\* and the rest of the loop
RECURSIVE BancoNacionFrom(_, _, _)
RECURSIVE BancoNacionLine(_, _, _, _)
BancoNacionFrom(lines, i, in_transaction_section) ==
    IF i > Len(lines) THEN <<>>
    ELSE BancoNacionLine(lines, i, Strip(lines[i]), in_transaction_section)

BancoNacionStep(lines, i, line, step) ==
    Found(IF step.parse THEN _parse_banco_nacion_transaction(line, i - 1) ELSE NoTxn)
    \o BancoNacionFrom(lines, i + 1, step.section)

BancoNacionLine(lines, i, line, in_transaction_section) ==
    IF line = "" THEN BancoNacionFrom(lines, i + 1, in_transaction_section)
    ELSE BancoNacionStep(lines, i, line, SectionStep(line, in_transaction_section))

\* (mutant) the section is open from the first line on
banco_nacion_extract_transactions_StartsOpen(t) ==
    BancoNacionFrom(Split(t, "\n"), 1, TRUE)

\* extract_transactions of the Banco Nacion parser: no section at the start
banco_nacion_extract_transactions(t) == BancoNacionFrom(Split(t, "\n"), 1, FALSE)

MaxLines == 2

StatementLines == {
    "01/02 STARBUCKS STORE #1234           5.67",
    "01/12 PAYMENT THANK YOU             -100.00",
    "01/05 AUTOPAY 50.00",
    "01-02-2024 STORE 5.00",
    "Statement Date: 01/15/2023",
    "Jan 15 AMAZON REF123 $29.99",
    "02/30 REFUND SHOES $12.5 CR",
    "01/07 REFUND SHOES $12.50 CR",
    "Closing 2023, due 2024, paid 2024" }

\* text with one more line
WithLine(t, n, l) == IF n = 0 THEN l ELSE t \o "\n" \o l

ParseInit ==
    /\ text = ""
    /\ parts = 0
    /\ parser = "none"
    /\ transactions = <<>>
    /\ clean_text = ""
    /\ counts = ZeroCounts
    /\ secs = ZeroSecs
    /\ scores = ZeroSecs
    /\ threshold = DefaultThreshold
    /\ detected = "none"
    /\ NoPipeline
    /\ NoAux

\* the statement text gets one more line, as long as no parser has it
AddLine(l) ==
    /\ parser = "none"
    /\ parts < MaxLines
    /\ text' = WithLine(text, parts, l)
    /\ parts' = parts + 1
    /\ parser' = "none"
    /\ transactions' = <<>>
    /\ UNCHANGED detect_vars
    /\ UNCHANGED <<pipeline_vars, aux_vars>>

\* parser.extract_transactions(text), once for a statement
ExtractTransactions(p) ==
    /\ parser = "none"
    /\ parser' = p
    /\ transactions' = extract_transactions(p, text)
    /\ UNCHANGED <<text, parts>>
    /\ UNCHANGED detect_vars
    /\ UNCHANGED <<pipeline_vars, aux_vars>>

ParseNext ==
    \/ \E l \in StatementLines : AddLine(l)
    \/ \E p \in Parsers : ExtractTransactions(p)

SpecParse == ParseInit /\ [][ParseNext]_vars

----------------------------------------------------------------------------
(* The Banco Nacion machine: a caller builds a statement text line by line *)
(* and hands it to BancoNacionParser.extract_transactions.                 *)

MaxBancoNacionLines == 3

BancoNacionLines == {
    "COMPRAS DEL MES",
    "TOTAL COMPRAS",
    "Detalle de pagos",
    "05-Ene-24 SUPERMERCADO 12345 1.234,56",
    "05-Ene-24 COMPRAS DEL MES 12345 10,00",
    "06-Feb-24 RESUMEN DE CUENTA 54321 20,00",
    "01/02/2024 STORE 5.00" }

\* the statement text gets one more line, as long as no parser has it
AddBancoNacionLine(l) ==
    /\ parser = "none"
    /\ parts < MaxBancoNacionLines
    /\ text' = WithLine(text, parts, l)
    /\ parts' = parts + 1
    /\ parser' = "none"
    /\ transactions' = <<>>
    /\ UNCHANGED detect_vars
    /\ UNCHANGED <<pipeline_vars, aux_vars>>

\* BancoNacionParser().extract_transactions(text), once for a statement
ExtractBancoNacion ==
    /\ parser = "none"
    /\ parser' = "BancoNacionParser"
    /\ transactions' = banco_nacion_extract_transactions(text)
    /\ UNCHANGED <<text, parts>>
    /\ UNCHANGED detect_vars
    /\ UNCHANGED <<pipeline_vars, aux_vars>>

BancoNacionNext ==
    \/ \E l \in BancoNacionLines : AddBancoNacionLine(l)
    \/ ExtractBancoNacion

SpecBancoNacion == ParseInit /\ [][BancoNacionNext]_vars

----------------------------------------------------------------------------
(* The sections machine: a caller builds a Banco Nacion statement of marker *)
(* lines and transaction lines and hands it to extract_transactions.        *)

MaxSectionLines == 5

\* a start marker, an end marker, a line with both, and a transaction line
SectionLines == {
    "COMPRAS DEL MES",
    "TOTAL COMPRAS",
    "TOTAL COMPRAS DEL MES",
    "05-Ene-24 SUPERMERCADO 12345 1.234,56" }

\* the statement text gets one more line, as long as no parser has it
AddSectionLine(l) ==
    /\ parser = "none"
    /\ parts < MaxSectionLines
    /\ text' = WithLine(text, parts, l)
    /\ parts' = parts + 1
    /\ parser' = "none"
    /\ transactions' = <<>>
    /\ UNCHANGED detect_vars
    /\ UNCHANGED <<pipeline_vars, aux_vars>>

\* BancoNacionParser().extract_transactions(text), once for a statement
ExtractSections ==
    /\ parser = "none"
    /\ parser' = "BancoNacionParser"
    /\ transactions' = banco_nacion_extract_transactions(text)
    /\ UNCHANGED <<text, parts>>
    /\ UNCHANGED detect_vars
    /\ UNCHANGED <<pipeline_vars, aux_vars>>

SectionsNext ==
    \/ \E l \in SectionLines : AddSectionLine(l)
    \/ ExtractSections

SpecSections == ParseInit /\ [][SectionsNext]_vars

----------------------------------------------------------------------------
(* services/bank_parsers/__init__.py: the parser registry *)

\* (mutant) without the fallback: None for a tag that is not registered
get_parser_for_bank_NoFallback(tag) ==
    IF tag \in DOMAIN PARSER_REGISTRY THEN PARSER_REGISTRY[tag] ELSE "None"

\* PARSER_REGISTRY.get(bank_type), and the generic parser when there is none
get_parser_for_bank(tag) ==
    IF tag \in DOMAIN PARSER_REGISTRY THEN PARSER_REGISTRY[tag] ELSE "GenericParser"

\* a tag that is no member of BankType
UnknownTag == "unknown"

----------------------------------------------------------------------------
(* models/statement_data.py: the rows of a statement and the API response *)

Pad2(n) == IF n < 10 THEN "0" \o ToString(n) ELSE ToString(n)

\* date.strftime("%Y-%m-%d"), for a year of four digits
DateStr(d) == ToString(d[1]) \o "-" \o Pad2(d[2]) \o "-" \o Pad2(d[3])

\* the digits after the point of str(x) for a float x of at most two
\* decimals: "0", "5" or "67"
FracStr(frac) == IF frac % 10 = 0 THEN ToString(frac \div 10) ELSE Pad2(frac)

\* str(amount) of a non-negative amount in cents: 567 is "5.67", 5000 is "50.0"
UnsignedStr(cents) == ToString(cents \div 100) \o "." \o FracStr(cents % 100)

FloatStr(cents) == IF cents < 0 THEN "-" \o UnsignedStr(-cents) ELSE UnsignedStr(cents)

headers == <<"Date", "Description", "Amount", "Type", "Category", "Reference">>

\* one row of ProcessedStatement.rows; no parser sets a category
RowOf(transaction) ==
    <<DateStr(transaction.date), transaction.description, FloatStr(transaction.amount),
      transaction.transaction_type, "", transaction.reference>>

\* (mutant) the rows in the reverse of the order of the transactions
rows_Reversed(txns) == [k \in 1..Len(txns) |-> RowOf(txns[Len(txns) + 1 - k])]

rows(txns) == [k \in 1..Len(txns) |-> RowOf(txns[k])]

\* ProcessingResult.success_response(statement); of the metadata of the
\* payload, the number of transactions
success_response_NoData(txns) ==
    [success |-> TRUE, message |-> "PDF processed successfully",
     data |-> <<>>, errors |-> <<>>]

success_response(txns) ==
    [success |-> TRUE,
     message |-> "PDF processed successfully",
     data |-> <<[headers |-> headers, rows |-> rows(txns),
                 metadata |-> [totalTransactions |-> Len(txns)]]>>,
     errors |-> <<>>]

\* ProcessingResult.error_response(message, errors)
error_response(message, errors) ==
    [success |-> FALSE, message |-> message, data |-> <<>>, errors |-> errors]

----------------------------------------------------------------------------
(* services/pdf_processor.py and main.py: the pipeline.  A PDF is a        *)
(* sequence of pages; process_pdf extracts their text, detects the bank,   *)
(* selects the parser, parses the statement and assembles the result,      *)
(* which upload_pdf returns.                                               *)

MaxPages == 2

\* what page.extract_text() gives for a page ("" for a page without text)
PageTexts == {
    "",
    "chase.com CHASE CREDIT CARD\n01/02 STARBUCKS STORE #1234           5.67",
    "Banco de la Nacion\nCOMPRAS DEL MES\n05-Ene-24 SUPERMERCADO 12345 1.234,56",
    "01/05 AUTOPAY 50.00",
    "Thank you" }

\* extracted_text += f"--- Page {page_num} ---\n{page_text}\n\n", if the page
\* has text (the pages have no tables)
WithPage(t, page_num, page_text) ==
    IF page_text = "" THEN t
    ELSE t \o "--- Page " \o ToString(page_num) \o " ---\n" \o page_text \o "\n\n"

\* parser.parse_statement(text, filename).transactions
parse_statement(p, t) ==
    IF p = "BancoNacionParser" THEN banco_nacion_extract_transactions(t)
    ELSE extract_transactions(p, t)

\* max_size_mb of validate_pdf_content and the limit of upload_pdf, in bytes
MaxBytes == 50 * 1024 * 1024

\* the least length that validate_pdf_content accepts
MinBytes == 1024

\* an uploaded file: the content type and the size that the request states
\* (0 for a size that is None), whether file.read() succeeds, and of the
\* content its first bytes and its length
UploadFile(content_type, size, readable, prefix, length) ==
    [content_type |-> content_type, size |-> size, readable |-> readable,
     content |-> [prefix |-> prefix, length |-> length]]

UploadFiles == {
    UploadFile("application/pdf", MinBytes, TRUE, "%PDF-1.4", MinBytes),
    UploadFile("application/pdf", 0, TRUE, "%PDF-1.4", MaxBytes),
    UploadFile("text/plain", 14, TRUE, "Not a PDF file", 14),
    UploadFile("application/pdf", MaxBytes + 1, TRUE, "%PDF-1.4", MaxBytes + 1),
    UploadFile("application/pdf", 0, TRUE, "%PDF-1.4", MaxBytes + 1),
    UploadFile("application/pdf", 2 * MinBytes, TRUE, "Not a PDF file", 2 * MinBytes),
    UploadFile("application/pdf", 2 * MinBytes, TRUE, "%PDF", 2 * MinBytes),
    UploadFile("application/pdf", MinBytes - 1, TRUE, "%PDF-1.4", MinBytes - 1),
    UploadFile("application/pdf", 30, TRUE, "%PDF-1.4\nSome PDF content here", 30),
    UploadFile("application/pdf", 0, TRUE, "", 0),
    UploadFile("application/pdf", 2 * MinBytes, FALSE, "", 0) }

\* f"{size_mb:.1f}" for size_mb = length / (1024 * 1024)
SizeMb(length) ==
    LET tenths == (length * 10 + 512 * 1024) \div (1024 * 1024) IN
    ToString(tenths \div 10) \o "." \o ToString(tenths % 10)

\* validate_pdf_content(pdf_content): (is_valid, error_message)
validate_pdf_content_NoMinimum(pdf_content) ==
    IF pdf_content.length > MaxBytes
    THEN [is_valid |-> FALSE,
          error_msg |-> "File size (" \o SizeMb(pdf_content.length)
                        \o "MB) exceeds maximum allowed size (50MB)"]
    ELSE IF ~StartsWith(pdf_content.prefix, "%PDF-")
    THEN [is_valid |-> FALSE, error_msg |-> "File does not appear to be a valid PDF"]
    ELSE [is_valid |-> TRUE, error_msg |-> "None"]

validate_pdf_content(pdf_content) ==
    IF pdf_content.length > MaxBytes
    THEN [is_valid |-> FALSE,
          error_msg |-> "File size (" \o SizeMb(pdf_content.length)
                        \o "MB) exceeds maximum allowed size (50MB)"]
    ELSE IF ~StartsWith(pdf_content.prefix, "%PDF-")
    THEN [is_valid |-> FALSE, error_msg |-> "File does not appear to be a valid PDF"]
    ELSE IF pdf_content.length < MinBytes
    THEN [is_valid |-> FALSE,
          error_msg |-> "PDF file appears to be too small or corrupted"]
    ELSE [is_valid |-> TRUE, error_msg |-> "None"]

\* an exception: the name of its class and its message
Exceptions == {
    [type |-> "PDFSyntaxError", message |-> "No /Root object! - Is this really a PDF?"],
    [type |-> "KeyError", message |-> "'MediaBox'"] }

Init == ParseInit

\* a caller other than process_pdf asks the registry for a parser
GetParserForBank(tag) ==
    /\ pc = "idle"
    /\ bank_type' = tag
    /\ parser' = get_parser_for_bank(tag)
    /\ UNCHANGED <<text, parts, transactions, pc, result, steps, file, checks, raised>>
    /\ UNCHANGED <<detect_vars, aux_vars>>

\* the parsers of the registry
ParserClasses == {"ChaseParser", "AmexParser", "GenericParser", "BancoNacionParser"}

\* texts for a call of parse_statement: the empty one, one of empty lines
\* only, one without a transaction and one with a transaction
StatementTexts == {"", "\n\n", "Thank you", "01/02 STARBUCKS STORE #1234           5.67"}

\* a caller other than process_pdf calls parser.parse_statement(t) of a
\* parser p it has constructed itself, without asking the registry
ParseStatement(p, t) ==
    /\ pc = "idle"
    /\ pc' = "parsed"
    /\ parser' = p
    /\ bank_type' = "none"
    /\ text' = t
    /\ transactions' = parse_statement(p, t)
    /\ UNCHANGED <<parts, result, steps, file, checks, raised>>
    /\ UNCHANGED <<detect_vars, aux_vars>>

\* a request with a file arrives at upload_pdf
UploadPdf(f) ==
    /\ pc = "idle"
    /\ pc' = "content_type"
    /\ file' = f
    /\ checks' = <<>>
    /\ raised' = ""
    /\ text' = ""
    /\ parts' = 0
    /\ bank_type' = "none"
    /\ parser' = "none"
    /\ transactions' = <<>>
    /\ result' = NoResult
    /\ steps' = <<>>
    /\ UNCHANGED <<detect_vars, aux_vars>>

\* upload_pdf returns error_response(message, errors).dict()
UploadRejects(message, errors) ==
    /\ result' = error_response(message, errors)
    /\ pc' = "done"
    /\ checks' = checks

\* upload_pdf goes on to its next step
UploadPasses(check, next) ==
    /\ result' = result
    /\ pc' = next
    /\ checks' = Append(checks, check)

\* if file.content_type != "application/pdf"
CheckContentType ==
    /\ pc = "content_type"
    /\ IF file.content_type # "application/pdf"
       THEN UploadRejects("Invalid file type", <<"File must be a PDF">>)
       ELSE UploadPasses("content_type", "size")
    /\ UNCHANGED <<text, parts, parser, transactions, bank_type, steps, file, raised>>
    /\ UNCHANGED <<detect_vars, aux_vars>>

\* if file.size and file.size > 50 * 1024 * 1024
CheckSize ==
    /\ pc = "size"
    /\ IF file.size # 0 /\ file.size > MaxBytes
       THEN UploadRejects("File too large", <<"PDF file must be smaller than 50MB">>)
       ELSE UploadPasses("size", "read")
    /\ UNCHANGED <<text, parts, parser, transactions, bank_type, steps, file, raised>>
    /\ UNCHANGED <<detect_vars, aux_vars>>

\* pdf_content = await file.read()
ReadFile ==
    /\ pc = "read"
    /\ IF ~file.readable
       THEN UploadRejects("Unable to read PDF file",
                          <<"File may be corrupted or inaccessible">>)
       ELSE UploadPasses("read", "validate")
    /\ UNCHANGED <<text, parts, parser, transactions, bank_type, steps, file, raised>>
    /\ UNCHANGED <<detect_vars, aux_vars>>

\* is_valid, error_msg = pdf_processor.validate_pdf_content(pdf_content), and
\* for a valid content the call of process_pdf
ValidateContent ==
    /\ pc = "validate"
    /\ LET validation == validate_pdf_content(file.content) IN
       IF ~validation.is_valid
       THEN UploadRejects("Invalid PDF file", <<validation.error_msg>>)
       ELSE UploadPasses("validate", "extract")
    /\ UNCHANGED <<text, parts, parser, transactions, bank_type, steps, file, raised>>
    /\ UNCHANGED <<detect_vars, aux_vars>>

\* _extract_text_from_pdf: one turn of the loop over the pages; a page whose
\* extraction raises is logged and skipped, as a page without text is
ExtractPage(page_text) ==
    /\ pc = "extract"
    /\ parts < MaxPages
    /\ text' = WithPage(text, parts + 1, page_text)
    /\ parts' = parts + 1
    /\ UNCHANGED <<parser, transactions, pc, bank_type, result, steps, file, checks, raised>>
    /\ UNCHANGED <<detect_vars, aux_vars>>

\* str(e) of PDFProcessingError(f"Failed to process PDF file: {str(e)}")
ExtractionFailure(e) == "Failed to process PDF file: " \o e.message

\* pdfplumber raises while _extract_text_from_pdf opens the PDF or walks its
\* pages: the exception is wrapped in a PDFProcessingError, which process_pdf
\* turns into an error response
ExtractRaises(e) ==
    /\ pc = "extract"
    /\ raised' = e.message
    /\ result' = error_response("Failed to process PDF", <<ExtractionFailure(e)>>)
    /\ pc' = "processed"
    /\ UNCHANGED <<text, parts, parser, transactions, bank_type, steps, file, checks>>
    /\ UNCHANGED <<detect_vars, aux_vars>>

\* an exception that is no PDFProcessingError rises in detection, selection,
\* parsing or assembly: process_pdf answers with the name of its class
ProcessRaises(e) ==
    /\ pc \in {"detect", "select", "parse", "assemble"}
    /\ raised' = e.message
    /\ result' = error_response("An unexpected error occurred while processing the PDF",
                                <<"Internal error: " \o e.type>>)
    /\ pc' = "processed"
    /\ UNCHANGED <<text, parts, parser, transactions, bank_type, steps, file, checks>>
    /\ UNCHANGED <<detect_vars, aux_vars>>

\* _extract_text_from_pdf returns the text, or raises PDFProcessingError for
\* a PDF without pages or without text, which process_pdf turns into an
\* error response
ExtractDone ==
    /\ pc = "extract"
    /\ IF parts = 0
       THEN /\ result' = error_response("Failed to process PDF",
                                        <<"PDF contains no pages">>)
            /\ pc' = "processed"
       ELSE IF IsBlank(text)
       THEN /\ result' = error_response("Failed to process PDF",
                                        <<"No text could be extracted from the PDF">>)
            /\ pc' = "processed"
       ELSE /\ result' = result
            /\ pc' = "detect"
    /\ UNCHANGED <<text, parts, parser, transactions, bank_type, steps, file, checks, raised>>
    /\ UNCHANGED <<detect_vars, aux_vars>>

\* bank_type = self.bank_detector.detect_bank(extracted_text), after the
\* check of the text
DetectStep ==
    /\ pc = "detect"
    /\ IF IsBlank(text)
       THEN /\ result' = error_response("Unable to extract text from PDF",
                             <<"PDF appears to be empty or contains only images">>)
            /\ pc' = "processed"
            /\ UNCHANGED <<clean_text, scores, threshold, detected, bank_type, steps>>
       ELSE /\ threshold' = DefaultThreshold
            /\ clean_text' = _clean_text_for_detection(text)
            /\ scores' = BankScores(clean_text')
            /\ detected' = SelectBank(scores', DefaultThreshold)
            /\ bank_type' = detected'
            /\ steps' = Append(steps, "detection")
            /\ pc' = "select"
            /\ result' = result
    /\ UNCHANGED <<text, parts, counts, secs, parser, transactions, file, checks, raised>>
    /\ UNCHANGED aux_vars

\* parser = get_parser_for_bank(bank_type)
SelectStep ==
    /\ pc = "select"
    /\ parser' = get_parser_for_bank(bank_type)
    /\ steps' = Append(steps, "selection")
    /\ IF parser' = "None"
       THEN /\ result' = error_response("No parser available for bank type: " \o bank_type,
                                        <<"Unsupported bank format detected">>)
            /\ pc' = "processed"
       ELSE /\ result' = result
            /\ pc' = "parse"
    /\ UNCHANGED <<text, parts, transactions, bank_type, file, checks, raised>>
    /\ UNCHANGED <<detect_vars, aux_vars>>

\* statement = parser.parse_statement(extracted_text, filename)
ParseStep_NoEmptyCheck ==
    /\ pc = "parse"
    /\ transactions' = parse_statement(parser, text)
    /\ steps' = Append(steps, "parsing")
    /\ result' = result
    /\ pc' = "assemble"
    /\ UNCHANGED <<text, parts, parser, bank_type, file, checks, raised>>
    /\ UNCHANGED <<detect_vars, aux_vars>>

ParseStep ==
    /\ pc = "parse"
    /\ transactions' = parse_statement(parser, text)
    /\ steps' = Append(steps, "parsing")
    /\ IF transactions' = <<>>
       THEN /\ result' = error_response("No transactions found in the statement",
                             <<"Statement may be in an unsupported format or corrupted">>)
            /\ pc' = "processed"
       ELSE /\ result' = result
            /\ pc' = "assemble"
    /\ UNCHANGED <<text, parts, parser, bank_type, file, checks, raised>>
    /\ UNCHANGED <<detect_vars, aux_vars>>

\* return ProcessingResult.success_response(statement)
AssembleStep ==
    /\ pc = "assemble"
    /\ result' = success_response(transactions)
    /\ steps' = Append(steps, "assembly")
    /\ pc' = "processed"
    /\ UNCHANGED <<text, parts, parser, transactions, bank_type, file, checks, raised>>
    /\ UNCHANGED <<detect_vars, aux_vars>>

\* upload_pdf after process_pdf: it logs "Applying data cleaning and
\* standardization" for a success and returns result.dict()
UploadReturn ==
    /\ pc = "processed"
    /\ pc' = "done"
    /\ UNCHANGED <<text, parts, parser, transactions, bank_type, result, steps,
                   file, checks, raised>>
    /\ UNCHANGED <<detect_vars, aux_vars>>

\* an exception rises in upload_pdf outside its own handlers, here while it
\* makes the response of the result: the outer handler answers
UploadRaises(e) ==
    /\ pc = "processed"
    /\ raised' = e.message
    /\ result' = error_response("An unexpected error occurred",
                   <<"Please try again or contact support if the problem persists">>)
    /\ pc' = "done"
    /\ UNCHANGED <<text, parts, parser, transactions, bank_type, steps, file, checks>>
    /\ UNCHANGED <<detect_vars, aux_vars>>

Next ==
    \/ \E tag \in BankTypes \cup {UnknownTag} : GetParserForBank(tag)
    \/ \E p \in ParserClasses, t \in StatementTexts : ParseStatement(p, t)
    \/ \E f \in UploadFiles : UploadPdf(f)
    \/ CheckContentType
    \/ CheckSize
    \/ ReadFile
    \/ ValidateContent
    \/ \E page_text \in PageTexts : ExtractPage(page_text)
    \/ \E e \in Exceptions : ExtractRaises(e)
    \/ \E e \in Exceptions : ProcessRaises(e)
    \/ ExtractDone
    \/ DetectStep
    \/ SelectStep
    \/ ParseStep
    \/ AssembleStep
    \/ UploadReturn
    \/ \E e \in Exceptions : UploadRaises(e)

Spec == Init /\ [][Next]_vars

----------------------------------------------------------------------------
(* utils/data_cleaner.py: amounts, dates, duplicates and whole statements. *)
(* The calls of the data cleaner are made one at a time, each recorded     *)
(* with its argument and with what it returned, while the days pass.       *)

\* a Transaction as the data cleaner sees it, the amount in cents
CleanerTransaction(d, desc, amt, type, category, ref) ==
    [date |-> d, description |-> desc, amount |-> amt, transaction_type |-> type,
     category |-> category, reference |-> ref]

\* the key of deduplicate_transactions
DuplicateKey_Signed(transaction) ==
    <<transaction.date, Lower(Strip(transaction.description)), transaction.amount>>

DuplicateKey(transaction) ==
    <<transaction.date, Lower(Strip(transaction.description)), Abs(transaction.amount)>>

\* the loop of deduplicate_transactions from transaction k on
RECURSIVE DeduplicateFrom(_, _, _, _)
DeduplicateFrom(txns, k, seen, unique_transactions) ==
    IF k > Len(txns) THEN unique_transactions
    ELSE IF DuplicateKey(txns[k]) \notin seen
    THEN DeduplicateFrom(txns, k + 1, seen \cup {DuplicateKey(txns[k])},
                         Append(unique_transactions, txns[k]))
    ELSE DeduplicateFrom(txns, k + 1, seen, unique_transactions)

deduplicate_transactions(txns) == DeduplicateFrom(txns, 1, {}, <<>>)

\* the longest list handed to deduplicate_transactions and clean_statement
MaxTransactions == 3

\* the transactions of these lists: a purchase, the same purchase written
\* otherwise and refunded, one of another amount and one of another day
CleanerTransactions == {
    CleanerTransaction(<<2024, 6, 1>>, "Starbucks", 567, "purchase", "Restaurants", "A1"),
    CleanerTransaction(<<2024, 6, 1>>, "STARBUCKS", -567, "credit", "", "B2"),
    CleanerTransaction(<<2024, 6, 1>>, "Starbucks", 568, "purchase", "", "C3"),
    CleanerTransaction(<<2014, 6, 1>>, "Starbucks", 567, "purchase", "", "D4") }

RECURSIVE ListsOf(_, _)
ListsOf(S, n) ==
    IF n = 0 THEN {<<>>}
    ELSE LET shorter == ListsOf(S, n - 1) IN
         shorter \cup {Append(l, x) : l \in {m \in shorter : Len(m) = n - 1}, x \in S}

TransactionLists == ListsOf(CleanerTransactions, MaxTransactions)

\* a call of a function of the data cleaner or of the parsers, on the day
\* that today is
Called(op, arg, out) == [op |-> op, arg |-> arg, out |-> out, day |-> today]

\* all but the last call and the day
others == <<tasks, shared, text, parts, detect_vars, parse_vars, pipeline_vars>>

DeduplicateTransactions(txns) ==
    /\ call' = Called("deduplicate_transactions", txns, deduplicate_transactions(txns))
    /\ UNCHANGED <<today, others>>

\* an amount: a float of at most three decimals, counted in thousandths; or
\* a finite float of magnitude 10^26 or more, an infinite one, or NaN
Number(milli) == [kind |-> "number", milli |-> milli]

Huge == [kind |-> "huge", milli |-> 0]

Infinity == [kind |-> "infinity", milli |-> 0]

NaN == [kind |-> "nan", milli |-> 0]

\* Decimal.quantize(Decimal('0.01')) under the default context, which rounds
\* half to even: the hundredths of an amount in thousandths
Quantize_Truncate(milli) == IF milli < 0 THEN -((-milli) \div 10) ELSE milli \div 10

Quantize(milli) ==
    LET q == milli \div 10
        r == milli % 10
    IN  IF r < 5 THEN q
        ELSE IF r > 5 THEN q + 1
        ELSE IF q % 2 = 0 THEN q ELSE q + 1

\* clean_amount(amount): quantize raises InvalidOperation for an infinite
\* amount and for one whose result would have more than 28 digits, and the
\* handler returns 0.0; NaN passes through quantize
clean_amount(amount) ==
    CASE amount.kind = "nan" -> NaN
      [] amount.kind \in {"huge", "infinity"} -> Number(0)
      [] OTHER -> Number(10 * Quantize(amount.milli))

\* the amounts handed to clean_amount range over -MaxMilli .. MaxMilli
\* thousandths
MaxMilli == 30

CleanerAmounts ==
    {Number(milli) : milli \in -MaxMilli..MaxMilli}
        \cup {Number(2665), Number(2675), Huge, Infinity, NaN}

CleanAmount(amount) ==
    /\ call' = Called("clean_amount", amount, clean_amount(amount))
    /\ UNCHANGED <<today, others>>

\* a <= b for two dates
DateLeq(a, b) ==
    \/ a[1] < b[1]
    \/ a[1] = b[1] /\ a[2] < b[2]
    \/ a[1] = b[1] /\ a[2] = b[2] /\ a[3] <= b[3]

\* is_valid_date(transaction_date) on the day date.today(); NoDate is None
is_valid_date_Exclusive(transaction_date, date_today) ==
    IF transaction_date = NoDate THEN FALSE
    ELSE LET min_date == <<date_today[1] - 10, 1, 1>>
             max_date == <<date_today[1] + 1, 12, 31>>
         IN  /\ DateLeq(min_date, transaction_date) /\ min_date # transaction_date
             /\ DateLeq(transaction_date, max_date) /\ max_date # transaction_date

is_valid_date(transaction_date, date_today) ==
    IF transaction_date = NoDate THEN FALSE
    ELSE LET min_date == <<date_today[1] - 10, 1, 1>>
             max_date == <<date_today[1] + 1, 12, 31>>
         IN  DateLeq(min_date, transaction_date) /\ DateLeq(transaction_date, max_date)

CleanerDates == {
    NoDate, <<2013, 12, 31>>, <<2014, 1, 1>>, <<2014, 12, 31>>, <<2015, 1, 1>>,
    <<2020, 2, 29>>, <<2025, 12, 31>>, <<2026, 1, 1>>, <<2026, 12, 31>>, <<2027, 1, 1>> }

IsValidDate(transaction_date) ==
    /\ call' = Called("is_valid_date", transaction_date,
                      is_valid_date(transaction_date, today))
    /\ UNCHANGED <<today, others>>

\* the day after a day
NextDay(d) ==
    IF d[3] < DaysIn(d[1], d[2]) THEN <<d[1], d[2], d[3] + 1>>
    ELSE IF d[2] < 12 THEN <<d[1], d[2] + 1, 1>>
    ELSE <<d[1] + 1, 1, 1>>

\* the days that pass
MaxDays == 2

RECURSIVE DaysAfter(_, _)
DaysAfter(d, n) == IF n = 0 THEN d ELSE DaysAfter(NextDay(d), n - 1)

\* midnight: date.today() is the next day
Midnight ==
    /\ today # DaysAfter(FirstDay, MaxDays)
    /\ today' = NextDay(today)
    /\ UNCHANGED <<call, others>>

\* the items of self.category_patterns in insertion order, each pattern
\* compiled with re.IGNORECASE
CategoryPattern(category, alts) == [category |-> category, pat |-> Alt(alts)]

category_patterns == <<
    CategoryPattern("Gas", <<Lit("shell"), Lit("exxon"), Lit("bp"), Lit("chevron"),
                             Lit("texaco"), Lit("gas") \o Ws0 \o Lit("station")>>),
    CategoryPattern("Gas", <<Lit("fuel"), Lit("gasoline")>>),
    CategoryPattern("Groceries", <<Lit("walmart"), Lit("target"), Lit("kroger"),
                                   Lit("safeway"), Lit("whole") \o Ws0 \o Lit("foods"),
                                   Lit("grocery")>>),
    CategoryPattern("Groceries", <<Lit("supermarket"), Lit("food") \o Ws0 \o Lit("store")>>),
    CategoryPattern("Restaurants", <<Lit("mcdonald"), Lit("starbucks"), Lit("subway"),
                                     Lit("taco") \o Ws0 \o Lit("bell"), Lit("pizza"),
                                     Lit("restaurant")>>),
    CategoryPattern("Restaurants", <<Lit("food"), Lit("dining"), Lit("cafe"), Lit("bistro")>>),
    CategoryPattern("Online Shopping", <<Lit("amazon"), Lit("ebay"), Lit("etsy"),
                                         Lit("online")>>),
    CategoryPattern("Online Shopping", <<Lit("amzn") \o Ws0 \o Lit("mktp")>>),
    CategoryPattern("Entertainment", <<Lit("netflix"), Lit("spotify"), Lit("hulu"),
                                       Lit("disney"), Lit("movie"), Lit("theater")>>),
    CategoryPattern("Entertainment", <<Lit("entertainment"), Lit("streaming")>>),
    CategoryPattern("Utilities", <<Lit("electric"), Lit("gas") \o Ws0 \o Lit("company"),
                                   Lit("water"), Lit("utility"), Lit("power")>>),
    CategoryPattern("Utilities", <<Lit("phone"), Lit("internet"), Lit("cable")>>),
    CategoryPattern("Transportation", <<Lit("uber"), Lit("lyft"), Lit("taxi"), Lit("bus"),
                                        Lit("metro"), Lit("transit")>>),
    CategoryPattern("Transportation", <<Lit("parking"), Lit("toll")>>),
    CategoryPattern("Healthcare", <<Lit("pharmacy"), Lit("cvs"), Lit("walgreens"),
                                    Lit("hospital"), Lit("medical")>>),
    CategoryPattern("Healthcare", <<Lit("doctor"), Lit("dentist"), Lit("clinic")>>) >>

\* auto_categorize(description): the category of the first pattern found,
\* "" for None
RECURSIVE CategorizeFrom(_, _)
CategorizeFrom(description, i) ==
    IF i > Len(category_patterns) THEN ""
    ELSE IF ReSearch(category_patterns[i].pat, description, TRUE).ok
    THEN category_patterns[i].category
    ELSE CategorizeFrom(description, i + 1)

auto_categorize(description) == CategorizeFrom(description, 1)

\* in a Transaction, where amounts are counted in cents, the amount of a
\* float of magnitude 10^26 or more
HugeCents == Pow10(9)

\* transaction.amount as clean_amount sees it
AmountOfCents(cents) == IF Abs(cents) >= HugeCents THEN Huge ELSE Number(10 * cents)

\* no cleaned transaction: clean_transaction returns None
Dropped == CleanerTransaction(NoDate, "", 0, "", "", "")

\* the Transaction that clean_transaction makes of the cleaned fields
CleanedTransaction(transaction, standardized_description, date_today) ==
    IF ~is_valid_date(transaction.date, date_today) THEN Dropped
    ELSE CleanerTransaction(transaction.date, Strip(standardized_description),
             clean_amount(AmountOfCents(transaction.amount)).milli \div 10,
             transaction.transaction_type,
             Otherwise(transaction.category, "",
                       auto_categorize(standardized_description)),
             transaction.reference)

\* (mutant) without the check of the cleaned description
clean_transaction_NoDescriptionCheck(transaction, date_today) ==
    CleanedTransaction(transaction, CleanedDescription(transaction.description),
                       date_today)

\* clean_transaction(transaction) on the day date.today()
clean_transaction(transaction, date_today) ==
    LET standardized_description == CleanedDescription(transaction.description) IN
    IF standardized_description = "" THEN Dropped
    ELSE CleanedTransaction(transaction, standardized_description, date_today)

\* clean_statement(statement).transactions on the day date.today()
RECURSIVE CleanFrom(_, _, _, _)
CleanFrom(txns, k, date_today, cleaned_transactions) ==
    IF k > Len(txns) THEN cleaned_transactions
    ELSE CleanFrom(txns, k + 1, date_today,
                   IF clean_transaction(txns[k], date_today) = Dropped
                   THEN cleaned_transactions
                   ELSE Append(cleaned_transactions,
                               clean_transaction(txns[k], date_today)))

\* a ProcessedStatement
ProcessedStatement(txns, metadata, raw_text, processing_notes) ==
    [transactions |-> txns, metadata |-> metadata, raw_text |-> raw_text,
     processing_notes |-> processing_notes]

\* f"Data cleaning applied: {len(cleaned_transactions)} transactions processed"
CleaningNote(cleaned_transactions) ==
    "Data cleaning applied: " \o ToString(Len(cleaned_transactions))
        \o " transactions processed"

\* (mutant) the note log is started anew
clean_statement_NewNotes(statement, date_today) ==
    [statement EXCEPT
        !.transactions = CleanFrom(@, 1, date_today, <<>>),
        !.processing_notes =
            <<CleaningNote(CleanFrom(statement.transactions, 1, date_today, <<>>))>>]

\* clean_statement(statement) on the day date.today(): the statement it was
\* given, with the cleaned transactions and one more note
clean_statement(statement, date_today) ==
    [statement EXCEPT
        !.transactions = CleanFrom(@, 1, date_today, <<>>),
        !.processing_notes =
            Append(@, CleaningNote(CleanFrom(statement.transactions, 1, date_today, <<>>)))]

\* the longest statement handed to clean_statement
MaxCleaned == 2

\* the metadata of these statements
CleanerMetadata ==
    [bank_name |-> "Chase", bank_type |-> "chase", statement_period |-> "Unknown",
     balance |-> "$0.00", total_transactions |-> 0]

\* the statements handed to clean_statement one after the other: their
\* transactions are purchases of the same amount on days ten years apart
Statements ==
    {ProcessedStatement(txns, CleanerMetadata, "", <<>>) :
        txns \in ListsOf({t \in CleanerTransactions : t.amount = 567}, MaxCleaned)}

CleanStatement(statement) ==
    /\ call' = Called("clean_statement", statement, clean_statement(statement, today))
    /\ UNCHANGED <<today, others>>

\* detect_bank(text) of a BankDetector, called on its own
DetectionTexts == {"Thank you", "chase.com CHASE CREDIT CARD"}

DetectBankCall(t) ==
    /\ call' = Called("detect_bank", t, detect_bank(t, DefaultThreshold))
    /\ UNCHANGED <<today, others>>

\* parser.parse_statement(text) of a parser p, called on its own
ParseStatementCall(p, t) ==
    /\ call' = Called("parse_statement", <<p, t>>, parse_statement(p, t))
    /\ UNCHANGED <<today, others>>

\* the calls of the functions of one argument
CleanerNext ==
    \/ \E amount \in CleanerAmounts : CleanAmount(amount)
    \/ \E transaction_date \in CleanerDates : IsValidDate(transaction_date)
    \/ \E txns \in TransactionLists : DeduplicateTransactions(txns)
    \/ Midnight

SpecCleaner == Init /\ [][CleanerNext]_vars

\* the calls of detection, parsing and cleaning
CallsNext ==
    \/ \E t \in DetectionTexts : DetectBankCall(t)
    \/ \E p \in ParserClasses, t \in StatementTexts : ParseStatementCall(p, t)
    \/ \E statement \in Statements : CleanStatement(statement)
    \/ Midnight

SpecCalls == Init /\ [][CallsNext]_vars

\* a transaction whose description is empty after cleaning
NoiseTransaction == CleanerTransaction(<<2024, 6, 1>>, "#123", 100, "purchase", "", "E5")

\* the statements of a parser handed to clean_statement: with or without a
\* note of the parser
ParsedStatements ==
    {ProcessedStatement(txns, CleanerMetadata, "01/06 STARBUCKS 5.67", notes) :
        txns \in ListsOf(CleanerTransactions \cup {NoiseTransaction}, MaxCleaned),
        notes \in {<<>>, <<"Parsed 2 transactions using Chase parser">>}}

\* the one call of clean_statement of a behaviour, on the day that today is
CleanParsedStatement(statement) ==
    /\ call = NoCall
    /\ call' = Called("clean_statement", statement, clean_statement(statement, today))
    /\ UNCHANGED <<today, others>>

\* the transactions handed to clean_transaction: those of the lists, and
\* one each with an empty description after cleaning, with an amount that
\* Decimal cannot quantize, with a date of the year after the next, with a
\* description of two category groups, and with a category of its own
ParsedTransactions ==
    CleanerTransactions \cup {
        NoiseTransaction,
        CleanerTransaction(<<2024, 6, 1>>, "Starbucks", HugeCents, "purchase", "", "F6"),
        CleanerTransaction(<<2026, 1, 1>>, "Zzz", 100, "fee", "", "G7"),
        CleanerTransaction(<<2024, 6, 1>>, "Shell restaurant", 100, "purchase", "", ""),
        CleanerTransaction(<<2024, 6, 1>>, "Shell gas", 100, "purchase", "Mine", "") }

\* the one call of clean_transaction of a behaviour, on the day that today is
CleanTransaction(transaction) ==
    /\ call = NoCall
    /\ call' = Called("clean_transaction", transaction, clean_transaction(transaction, today))
    /\ UNCHANGED <<today, others>>

StatementNext ==
    \/ \E statement \in ParsedStatements : CleanParsedStatement(statement)
    \/ \E transaction \in ParsedTransactions : CleanTransaction(transaction)
    \/ Midnight

SpecStatement == Init /\ [][StatementNext]_vars

----------------------------------------------------------------------------
(* The amount machine: a caller takes an amount string or writes one,      *)
(* character by character, and hands it to _parse_banco_nacion_amount.     *)

\* the longest amount string written character by character
MaxAmountLen == 4

AmountChars == {"0", "1", "5", ".", ",", "-", " ", "x"}

AmountExamples == {"123.456,78", "1.234,56", " 1.234,5 ", "1,234.56", "12.345.678,90",
                   "-1.234,56", "1|DECIMAL|5"}

TakeAmount(amount_str) ==
    /\ text = ""
    /\ call = NoCall
    /\ text' = amount_str
    /\ UNCHANGED <<parts, detect_vars, parse_vars, pipeline_vars, aux_vars>>

AddAmountChar(c) ==
    /\ Len(text) < MaxAmountLen
    /\ call = NoCall
    /\ text' = text \o c
    /\ UNCHANGED <<parts, detect_vars, parse_vars, pipeline_vars, aux_vars>>

ParseBancoNacionAmount ==
    /\ call = NoCall
    /\ call' = Called("_parse_banco_nacion_amount", text, _parse_banco_nacion_amount(text))
    /\ UNCHANGED <<today, others>>

AmountNext ==
    \/ \E amount_str \in AmountExamples : TakeAmount(amount_str)
    \/ \E c \in AmountChars : AddAmountChar(c)
    \/ ParseBancoNacionAmount

SpecAmount == Init /\ [][AmountNext]_vars

----------------------------------------------------------------------------
(* The classification machine: a caller writes a description word by word  *)
(* and hands it to _classify_transaction_type of the base parser.          *)

\* the most words of a description
MaxWords == 2

DescriptionWords == {"autopay", "fee", "charge", "interest", "april", "atm", "refund",
                     "store"}

AddWord(w) ==
    /\ parts < MaxWords
    /\ call = NoCall
    /\ text' = IF parts = 0 THEN w ELSE text \o " " \o w
    /\ parts' = parts + 1
    /\ UNCHANGED <<detect_vars, parse_vars, pipeline_vars, aux_vars>>

ClassifyTransactionType ==
    /\ call = NoCall
    /\ call' = Called("_classify_transaction_type", text, _classify_transaction_type(text))
    /\ UNCHANGED <<today, others>>

ClassifyNext ==
    \/ \E w \in DescriptionWords : AddWord(w)
    \/ ClassifyTransactionType

SpecClassify == Init /\ [][ClassifyNext]_vars

----------------------------------------------------------------------------
(* Concurrent invocations of process_pdf on the one PDFProcessor of        *)
(* main.py.  An invocation runs up to the await of the text extraction,    *)
(* where others may run, and from the return of the extraction to its end. *)

\* the number of invocations
MaxTasks == 2

\* the PDFs of the invocations: the texts of their pages
TaskPdfs == {
    <<>>,
    <<"">>,
    <<"Thank you">>,
    <<"chase.com\n01/02 STARBUCKS 5.67">> }

\* extracted_text of _extract_text_from_pdf after the pages up to page k
RECURSIVE TextUpTo(_, _)
TextUpTo(pages, k) ==
    IF k = 0 THEN "" ELSE WithPage(TextUpTo(pages, k - 1), k, pages[k])

\* PARSER_REGISTRY.get(bank_type) or GenericParser, in a registry
ParserIn(registry, tag) ==
    IF tag \in DOMAIN registry THEN registry[tag] ELSE "GenericParser"

\* process_pdf from the parsed transactions on
ResultOfTransactions(txns) ==
    IF txns = <<>>
    THEN error_response("No transactions found in the statement",
                        <<"Statement may be in an unsupported format or corrupted">>)
    ELSE success_response(txns)

\* process_pdf from the extracted text on, with the shared objects sh
ResultOfText(t, sh) ==
    ResultOfTransactions(
        parse_statement(ParserIn(sh.registry, detect_bank(t, sh.confidence_threshold)), t))

\* process_pdf from the return of _extract_text_from_pdf on
ResultOfPages(page_count, t, sh) ==
    IF page_count = 0
    THEN error_response("Failed to process PDF", <<"PDF contains no pages">>)
    ELSE IF IsBlank(t)
    THEN error_response("Failed to process PDF",
                        <<"No text could be extracted from the PDF">>)
    ELSE ResultOfText(t, sh)

\* the locals of an invocation
Task(position, pdf_content, extracted_text, res) ==
    [pc |-> position, pdf_content |-> pdf_content, extracted_text |-> extracted_text,
     result |-> res]

\* the extraction of invocation i has put its text t in its own local
Extracted_OneBuffer(all, i, t) ==
    [j \in DOMAIN all |-> IF all[j].pc \in {"await", "resumed"}
                          THEN Task(IF j = i THEN "resumed" ELSE all[j].pc,
                                    all[j].pdf_content, t, all[j].result)
                          ELSE all[j]]

Extracted(all, i, t) ==
    [all EXCEPT ![i] = Task("resumed", all[i].pdf_content, t, all[i].result)]

\* a request arrives: process_pdf is invoked and runs up to the await
Invoke(pdf_content) ==
    /\ Len(tasks) < MaxTasks
    /\ tasks' = Append(tasks, Task("await", pdf_content, "", NoResult))
    /\ UNCHANGED <<today, call, shared>>
    /\ UNCHANGED <<text, parts, detect_vars, parse_vars, pipeline_vars>>

\* _extract_text_from_pdf of invocation i runs
ExtractText(i) ==
    /\ tasks[i].pc = "await"
    /\ tasks' = Extracted(tasks, i, TextUpTo(tasks[i].pdf_content,
                                              Len(tasks[i].pdf_content)))
    /\ UNCHANGED <<today, call, shared>>
    /\ UNCHANGED <<text, parts, detect_vars, parse_vars, pipeline_vars>>

\* invocation i runs from the return of the extraction to its end
Resume(i) ==
    /\ tasks[i].pc = "resumed"
    /\ tasks' = [tasks EXCEPT ![i] =
                     Task("done", tasks[i].pdf_content, tasks[i].extracted_text,
                          ResultOfPages(Len(tasks[i].pdf_content),
                                        tasks[i].extracted_text, shared))]
    /\ UNCHANGED <<today, call, shared>>
    /\ UNCHANGED <<text, parts, detect_vars, parse_vars, pipeline_vars>>

TasksNext ==
    \/ \E pdf_content \in TaskPdfs : Invoke(pdf_content)
    \/ \E i \in 1..Len(tasks) : ExtractText(i)
    \/ \E i \in 1..Len(tasks) : Resume(i)

SpecTasks == Init /\ [][TasksNext]_vars

----------------------------------------------------------------------------
(* The registry of services/bank_parsers/__init__.py as the calls of       *)
(* register_parser change it and the calls of get_parser_for_bank read it. *)

\* the classes handed to register_parser: parsers, their abstract base
\* class, and a class that is no parser
RegisteredClasses ==
    {"ChaseParser", "GenericParser", "BaseStatementParser", "DataCleaner"}

\* the bank types handed to register_parser and to get_parser_for_bank
RegistryTags == {"chase", "amex", UnknownTag}

\* issubclass(parser_class, BaseStatementParser), true of the class itself
IsParserClass(parser_class) ==
    parser_class \in {"ChaseParser", "AmexParser", "BancoNacionParser",
                      "GenericParser", "BaseStatementParser"}

\* parser_class(): the abstract methods of BaseStatementParser make its
\* instantiation raise TypeError
Instance(parser_class) ==
    IF parser_class = "BaseStatementParser" THEN "TypeError" ELSE parser_class

\* PARSER_REGISTRY after register_parser(bank_type, parser_class), tag being
\* the bank type
register_parser(registry, tag, parser_class) ==
    IF ~IsParserClass(parser_class)
    THEN registry
    ELSE [t \in DOMAIN registry \cup {tag} |->
              IF t = tag THEN parser_class ELSE registry[t]]

\* a call of register_parser
RegisterParser(tag, parser_class) ==
    /\ shared' = [shared EXCEPT !.registry = register_parser(@, tag, parser_class)]
    /\ call' = Called("register_parser", <<tag, parser_class>>,
                      IF IsParserClass(parser_class) THEN "None" ELSE "ValueError")
    /\ UNCHANGED <<today, tasks>>
    /\ UNCHANGED <<text, parts, detect_vars, parse_vars, pipeline_vars>>

\* a call of get_parser_for_bank
LookupParser(tag) ==
    /\ call' = Called("get_parser_for_bank", <<tag>>,
                      Instance(ParserIn(shared.registry, tag)))
    /\ UNCHANGED <<today, tasks, shared>>
    /\ UNCHANGED <<text, parts, detect_vars, parse_vars, pipeline_vars>>

RegistryNext ==
    \/ \E tag \in RegistryTags, parser_class \in RegisteredClasses :
           RegisterParser(tag, parser_class)
    \/ \E tag \in RegistryTags : LookupParser(tag)

SpecRegistry == Init /\ [][RegistryNext]_vars

----------------------------------------------------------------------------
(* Claims about the parsers *)

\* the lines of the sample statement of test_basic.py that the scenarios name
ScenarioB == "01/02 STARBUCKS STORE #1234           5.67"

ScenarioC == "01/12 PAYMENT THANK YOU             -100.00"

\* the transactions that the last extract_transactions call made of line n
\* of the text (the first line is line 0)
FromLine(n) == {k \in 1..Len(transactions) : transactions[k].line_num = n}

\* every line of the text that is the given one has yielded exactly one
\* transaction, and that transaction satisfies Expected
EachYieldsOne(line, Expected(_)) ==
    LET lines == Split(text, "\n") IN
    \A n \in 1..Len(lines) :
        lines[n] = line =>
            /\ Cardinality(FromLine(n - 1)) = 1
            /\ \A k \in FromLine(n - 1) : Expected(transactions[k])

\* C2: every Transaction that a parser produces has an amount <= 0 when its
\* transaction_type is payment or credit, and an amount >= 0 when it is of
\* any other type.
C2_SignInvariant ==
    \A k \in 1..Len(transactions) :
        IF transactions[k].transaction_type \in {"payment", "credit"}
        THEN transactions[k].amount <= 0
        ELSE transactions[k].amount >= 0

IsPaymentOfMinus100(t) == t.transaction_type = "payment" /\ t.amount = -10000

\* C3: the line "01/12 PAYMENT THANK YOU   -100.00", parsed by the Chase parser
\* or the generic parser, yields exactly one transaction, of type payment and
\* amount -100.00.
C3_ScenarioC ==
    parser \in {"ChaseParser", "GenericParser"} =>
        EachYieldsOne(ScenarioC, IsPaymentOfMinus100)

\* January 2 of the year, 5.67, a purchase, "Starbucks" in the description
\* that the data cleaner gives the transaction
IsStarbucksPurchase(t, year) ==
    /\ t.date = <<year, 1, 2>>
    /\ t.amount = 567
    /\ t.transaction_type = "purchase"
    /\ Contains(CleanedDescription(t.description), "Starbucks")

IsStarbucksOfStatementYear(t) == IsStarbucksPurchase(t, statement_year(parser, text))

IsStarbucksOfFirstYear(t) == IsStarbucksPurchase(t, FirstYear(text))

\* C4: the line "01/02 STARBUCKS STORE #1234   5.67", parsed by the Chase
\* parser or the generic parser, yields exactly one Transaction: dated
\* January 2 of the statement year, of amount 5.67 and type purchase, whose
\* description contains "Starbucks" after cleaning.
C4_ScenarioB ==
    parser \in {"ChaseParser", "GenericParser"} =>
        EachYieldsOne(ScenarioB, IsStarbucksOfStatementYear)

\* the generic parser has parsed the line under a statement header of 2023
C4_Witness ==
    /\ parser = "GenericParser"
    /\ text = "Statement Date: 01/15/2023\n" \o ScenarioB
    /\ Len(transactions) = 1
    /\ transactions[1].date = <<2023, 1, 2>>
    /\ transactions[1].description = "STARBUCKS STORE #1234"
    /\ CleanedDescription(transactions[1].description) = "StarbucksStore"

\* C4 as stated: the same outcome when the shared base line parser
\* (_parse_transaction_line) handles the line
C4_BaseLineParser ==
    parser = "BaseStatementParser" =>
        EachYieldsOne(ScenarioB, IsStarbucksOfFirstYear)

----------------------------------------------------------------------------
(* Claims about the Banco Nacion section *)

IsStartMarker(line) == ReSearch(transaction_section_start, line, TRUE).ok

IsEndMarker(line) == ReSearch(transaction_section_end, line, TRUE).ok

\* line i of the lines lies after a start-marker line j with no end-marker
\* line between the two
InSection(lines, i) ==
    \E j \in 1..(i - 1) :
        /\ IsStartMarker(lines[j])
        /\ \A m \in (j + 1)..(i - 1) : ~IsEndMarker(lines[m])

\* the line is not a marker line and lies in a section
MayProduce(lines, i) ==
    /\ ~IsStartMarker(lines[i])
    /\ ~IsEndMarker(lines[i])
    /\ InSection(lines, i)

\* C9: a line of a Banco Nacion statement produces a transaction only if it
\* lies after a start-marker line (COMPRAS DEL MES) and before the next
\* end-marker line (TOTAL COMPRAS, RESUMEN DE CUENTA, DETALLE DE PAGOS), and
\* no marker line produces one, even when it has the form of a transaction
\* line.
C9_SectionLinesOnly ==
    parser = "BancoNacionParser" =>
        \A k \in 1..Len(transactions) :
            MayProduce(Split(text, "\n"), transactions[k].line_num + 1)

\* a section of two lines of the transaction form, the second a marker line:
\* only the first one has produced a transaction
C9_Witness ==
    /\ parser = "BancoNacionParser"
    /\ text = "COMPRAS DEL MES\n05-Ene-24 SUPERMERCADO 12345 1.234,56\n"
              \o "05-Ene-24 COMPRAS DEL MES 12345 10,00"
    /\ Len(transactions) = 1
    /\ transactions[1].line_num = 1
    /\ transactions[1].amount = 123456

----------------------------------------------------------------------------
(* Claims about the registry and the pipeline *)

\* the parser class that the registry names for a tag
ExpectedParser(tag) ==
    CASE tag = "chase" -> "ChaseParser"
      [] tag = "amex" -> "AmexParser"
      [] tag = "banco_nacion" -> "BancoNacionParser"
      [] OTHER -> "GenericParser"

RowsAreCleaned ==
    /\ Len(result.data) = 1
    /\ Len(result.data[1].rows) = Len(transactions)
    /\ \A k \in 1..Len(transactions) :
           result.data[1].rows[k][2] = CleanedDescription(transactions[k].description)

\* C10: an invocation that ends in a success has taken the steps bank
\* detection, parser selection, parsing, data cleaning and result assembly in
\* this order, and the rows of its payload are the cleaned transactions.
C10_PipelineOrder ==
    pc = "done" /\ result.success =>
        /\ steps = <<"detection", "selection", "parsing", "cleaning", "assembly">>
        /\ RowsAreCleaned

----------------------------------------------------------------------------
(* Claims about the responses of process_pdf and upload_pdf *)

\* process_pdf or upload_pdf has returned its result
Returned == pc \in {"processed", "done"}

\* all the checks of upload_pdf, in the order of the code
AllChecks == <<"content_type", "size", "read", "validate">>

\* C11: every result that process_pdf or upload_pdf returns is either a
\* success with data and without errors, or a failure without data and with
\* at least one error.
C11_Envelope ==
    Returned =>
        \/ result.success /\ result.data # <<>> /\ result.errors = <<>>
        \/ ~result.success /\ result.data = <<>> /\ result.errors # <<>>

\* upload_pdf has returned a failure that process_pdf gave it
C11_Witness ==
    /\ pc = "done"
    /\ ~result.success
    /\ checks = AllChecks
    /\ result.errors # <<>>

\* C12: when an exception has risen during extraction, detection or parsing,
\* the result is a failure, and neither its message nor any of its errors
\* contains the message of the exception.
C12_NoRawDetail ==
    Returned /\ raised # "" =>
        /\ ~result.success
        /\ ~Contains(result.message, raised)
        /\ \A k \in 1..Len(result.errors) : ~Contains(result.errors[k], raised)

\* process_pdf has returned right after the parsing step
ReturnedAfterParsing ==
    pc = "processed" /\ steps # <<>> /\ steps[Len(steps)] = "parsing" /\ raised = ""

NoTransactionsFound ==
    error_response("No transactions found in the statement",
                   <<"Statement may be in an unsupported format or corrupted">>)

WellFormed(content) ==
    /\ StartsWith(content.prefix, "%PDF-")
    /\ content.length >= 1024
    /\ content.length <= 50 * 1024 * 1024

\* process_pdf has been invoked: the position is in it or after it, or it
\* has left a trace
Invoked ==
    \/ pc \in {"extract", "detect", "select", "parse", "assemble", "processed"}
    \/ parts > 0
    \/ text # ""
    \/ steps # <<>>
    \/ result.message \in {"Failed to process PDF", "PDF processed successfully",
                            "Unable to extract text from PDF",
                            "No transactions found in the statement"}

\* C14: validate_pdf_content accepts a content if and only if it starts with
\* "%PDF-", has at least 1024 bytes and at most 50 MB; and process_pdf is
\* invoked only for a file that has passed the check of the content type,
\* the check of the size and validate_pdf_content, in this order.
C14_ValidationGates ==
    /\ pc \notin {"idle", "parsed"} /\ Len(checks) = 4 => WellFormed(file.content)
    /\ pc = "done" /\ Len(checks) = 3 => ~WellFormed(file.content)
    /\ pc \notin {"idle", "parsed"} /\ Invoked =>
           /\ checks = AllChecks
           /\ file.content_type = "application/pdf"
           /\ file.size <= 50 * 1024 * 1024
           /\ file.readable

\* process_pdf extracts the text of a file of exactly 1024 bytes
C14_Witness ==
    /\ pc = "extract"
    /\ parts > 0
    /\ file.content.length = 1024
    /\ checks = AllChecks

----------------------------------------------------------------------------
(* Claims about the data cleaner *)

\* the key that the claim gives: the date, the description trimmed and in
\* lower case, the magnitude of the amount
KeyOf(transaction) ==
    <<transaction.date, Lower(Strip(transaction.description)),
      IF transaction.amount < 0 THEN -transaction.amount ELSE transaction.amount>>

\* the positions of a list whose key no earlier position has
FirstOccurrences(txns) ==
    {k \in 1..Len(txns) : \A j \in 1..(k - 1) : KeyOf(txns[j]) # KeyOf(txns[k])}

\* the i-th least member of a set of numbers
Nth(S, i) == CHOOSE k \in S : Cardinality({j \in S : j < k}) = i - 1

\* C15: deduplicate_transactions returns, in the order of the input, the
\* first transaction of each key (date, trimmed lower-case description,
\* magnitude of the amount), each with all the fields it had.
C15_FirstOccurrences ==
    call.op = "deduplicate_transactions" =>
        /\ Len(call.out) = Cardinality(FirstOccurrences(call.arg))
        /\ \A i \in 1..Len(call.out) :
               call.out[i] = call.arg[Nth(FirstOccurrences(call.arg), i)]

\* a list of a purchase and its refund, of the same key but of other fields,
\* has come back one shorter, the purchase kept
C15_Witness ==
    /\ call.op = "deduplicate_transactions"
    /\ Len(call.arg) = 3
    /\ Len(call.out) = 2
    /\ call.arg[1].amount = 567 /\ call.arg[2].amount = -567
    /\ call.out[1] = call.arg[1]
    /\ call.out[2] = call.arg[3]

\* out is amount rounded to hundredths in decimal, a tie going to the even
\* hundredth
Rounded(amount, out) ==
    /\ amount.kind = "number"
    /\ out.kind = "number"
    /\ out.milli % 10 = 0
    /\ Abs(out.milli - amount.milli) <= 5
    /\ Abs(out.milli - amount.milli) = 5 => (out.milli \div 10) % 2 = 0

C17_DateBound ==
    call.op = "is_valid_date" =>
        (call.out <=> /\ call.arg # NoDate
                      /\ call.day[1] - 10 <= call.arg[1]
                      /\ call.arg[1] <= call.day[1] + 1)

\* January 1 of the tenth year before today's has been found valid, after a
\* new year has begun
C17_Witness ==
    /\ call.op = "is_valid_date"
    /\ call.day[1] = FirstDay[1] + 1
    /\ call.arg = <<call.day[1] - 10, 1, 1>>
    /\ call.out

----------------------------------------------------------------------------
(* Claims about the calls of detection, parsing and cleaning *)

\* C18: two calls of detect_bank, of parse_statement or of clean_statement
\* with the same input, one after the other, return the same output,
\* whatever the day of each call and whatever was called before.
C18_Deterministic ==
    [][/\ call.op \in {"detect_bank", "parse_statement", "clean_statement"}
       /\ call'.op = call.op
       /\ call'.arg = call.arg
       => call'.out = call.out]_vars

----------------------------------------------------------------------------
(* Claims about concurrent invocations *)

\* the result of process_pdf for a PDF when no other invocation runs
Alone(pdf_content) ==
    ResultOfPages(Len(pdf_content), TextUpTo(pdf_content, Len(pdf_content)),
                  [registry |-> PARSER_REGISTRY, confidence_threshold |-> DefaultThreshold])

\* the results of the PDFs of the invocations, each run alone
AloneResults == [pdf_content \in TaskPdfs |-> Alone(pdf_content)]

\* C19: every invocation of process_pdf that has ended among concurrent
\* ones has the result that it has when it runs alone, and the shared
\* registry and detector are as they were made.
C19_Independent ==
    /\ \A i \in 1..Len(tasks) :
           tasks[i].pc = "done" => tasks[i].result = AloneResults[tasks[i].pdf_content]
    /\ shared = [registry |-> PARSER_REGISTRY, confidence_threshold |-> DefaultThreshold]

\* two invocations for different PDFs have both ended, the second one
\* extracted while the first one waited to resume, one a success and one not
C19_Witness ==
    /\ Len(tasks) = 2
    /\ tasks[1].pc = "done" /\ tasks[2].pc = "done"
    /\ tasks[1].result.success
    /\ ~tasks[2].result.success

----------------------------------------------------------------------------
(* Claims about the amounts of Banco Nacion *)

\* only digits
AllDigits(s) == \A i \in 1..Len(s) : CharAt(s, i) \in Digit

\* groups of digits with dots between them, the first of one to three
\* digits and the others of three: 123.456 or 12 (pieces: the groups)
Thousands(pieces) ==
    /\ \A k \in 1..Len(pieces) : AllDigits(pieces[k])
    /\ Len(pieces[1]) \in 1..3
    /\ \A k \in 2..Len(pieces) : Len(pieces[k]) = 3

\* thousands with dots, a comma, decimals (pieces: what is around commas)
LocaleForm(pieces) ==
    /\ Len(pieces) = 2
    /\ Thousands(Split(pieces[1], "."))
    /\ pieces[2] # ""
    /\ AllDigits(pieces[2])

\* the number that the digits of the thousands and the decimals stand for
LocaleValue(pieces) ==
    Decimal(ToInt(Without(pieces[1], ".")) * Pow10(Len(pieces[2])) + ToInt(pieces[2]),
            Len(pieces[2]))

\* the commas replaced by the placeholder, the dots deleted, the
\* placeholder replaced by a point
Canonical(s) == Replace(Without(Replace(s, ",", "|DECIMAL|"), "."), "|DECIMAL|", ".")

\* without the sign in front
Unsigned(s) == IF s # "" /\ CharAt(s, 1) \in {"-", "+"} THEN SubSeq(s, 2, Len(s)) ELSE s

\* a decimal number: digits with at most one point among them
IsNumber(s) ==
    /\ \A i \in 1..Len(s) : CharAt(s, i) \in Digit \cup {"."}
    /\ Cardinality({i \in 1..Len(s) : CharAt(s, i) = "."}) <= 1
    /\ \E i \in 1..Len(s) : CharAt(s, i) \in Digit

\* C20: _parse_banco_nacion_amount gives for an amount string with dots
\* for the thousands and a comma for the decimals the number it stands for,
\* 123456.78 for "123.456,78"; and None exactly for a string that is no
\* number once its commas are replaced by the placeholder, its dots deleted
\* and the placeholder replaced by a point.
C20_LocaleAmount ==
    call.op = "_parse_banco_nacion_amount" =>
        /\ LocaleForm(Split(Strip(call.arg), ",")) =>
               call.out = LocaleValue(Split(Strip(call.arg), ","))
        /\ call.arg = "123.456,78" => call.out = [coef |-> 12345678, places |-> 2]
        /\ call.out = NoFloat <=> ~IsNumber(Unsigned(Strip(Canonical(Strip(call.arg)))))

\* "123.456,78" has been parsed
C20_Witness ==
    /\ call.op = "_parse_banco_nacion_amount"
    /\ call.arg = "123.456,78"
    /\ call.out # NoFloat

----------------------------------------------------------------------------
(* Claims about the per-bank score *)

\* the sum over i of f[i], for a sequence f of numbers
RECURSIVE SumOf(_)
SumOf(f) == IF f = <<>> THEN 0 ELSE f[1] + SumOf(Tail(f))

\* min(2.0, (sum of min(0.3*c_i, 1.0)) * (1 + 0.2*(k-1) if k > 1 else 1) + 0.1*s)
\* in hundredths, k being the number of patterns with c_i > 0
ClosedFormScore(c, s) ==
    LET sum == SumOf([i \in 1..Len(c) |-> Min(30 * c[i], 100)])
        k == Cardinality({i \in 1..Len(c) : c[i] > 0})
        boosted == IF k > 1 THEN (sum * (10 + 2 * (k - 1))) \div 10 ELSE sum
    IN  Min(200, boosted + 10 * s)

\* C21: the score of a bank with primary match counts c_1..c_n, k patterns
\* with a match and s matching secondary indicators is
\* min(2.0, (sum of min(0.3*c_i, 1.0)) * (1 + 0.2*(k-1) if k > 1 else 1) + 0.1*s);
\* it lies in [0, 2.0], and the secondary bonus is added after the
\* multiplier; a bank without secondary indicators has s = 0.
C21_ScoreFormula ==
    \A b \in DOMAIN bank_patterns :
        /\ scores[b] = ClosedFormScore(counts[b], secs[b])
        /\ scores[b] >= 0 /\ scores[b] <= 200
        /\ secondary_indicators[b] = <<>> => secs[b] = 0

\* two patterns and a secondary indicator of Chase match: 0.6 * 1.2 + 0.1,
\* where scaling the bonus as well would give 0.84
C21_Witness ==
    /\ counts.chase[1] = 1 /\ counts.chase[2] = 1
    /\ \A i \in 3..Len(counts.chase) : counts.chase[i] = 0
    /\ secs.chase = 1
    /\ scores.chase = 82

----------------------------------------------------------------------------
(* Claims about the line parsers of the specialized parsers *)

SpecializedParsers == {"ChaseParser", "AmexParser", "BancoNacionParser"}

\* the indices of the full-line patterns of a specialized parser
OwnPatterns(p) ==
    CASE p = "ChaseParser" -> 1..Len(chase_transaction_patterns)
      [] p = "AmexParser" -> 1..Len(amex_transaction_patterns)
      [] OTHER -> {1}

\* what pattern i of the parser makes of the line: a Transaction when the
\* pattern matches and the date and the amount convert, None otherwise
OwnPattern(p, i, line, year, line_num) ==
    CASE p = "ChaseParser" ->
             ChaseMatch(ReMatch(chase_transaction_patterns[i], line, FALSE),
                        line, year, line_num)
      [] p = "AmexParser" ->
             AmexMatch(ReMatch(amex_transaction_patterns[i], line, FALSE),
                       i, line, year, line_num)
      [] OTHER ->
             BancoNacionMatch(ReMatch(transaction_pattern, line, TRUE), line, line_num)

\* the first own pattern that yields a Transaction determines it; the shared
\* base line parser has the line only when none does
FallbackOrder(p, line, year, line_num) ==
    LET yielding == {i \in OwnPatterns(p) : OwnPattern(p, i, line, year, line_num).ok}
    IN  IF yielding # {}
        THEN OwnPattern(p, CHOOSE i \in yielding : \A j \in yielding : i <= j,
                        line, year, line_num)
        ELSE _parse_transaction_line(line, line_num)

\* line i is handed to the line parser: it is not empty and not ignored; for
\* Banco Nacion, it is a line of a section that is not a marker line
HandedToLineParser(p, lines, i) ==
    /\ Strip(lines[i]) # ""
    /\ IF p = "BancoNacionParser" THEN MayProduce(lines, i)
       ELSE ~should_ignore_line(p, Strip(lines[i]))

\* the transactions that came from the line of the given number
TransactionsOfLine(n) == SelectSeq(transactions, LAMBDA t : t.line_num = n)

\* C22: for every line that is not ignored, the Chase, the Amex and the Banco
\* Nacion parser try their own full-line patterns in order, the first that
\* matches and converts determines the transaction, and only when none yields
\* a transaction is the line handed to the shared base line parser.
C22_FallbackOrder ==
    parser \in SpecializedParsers =>
        \A i \in 1..Len(Split(text, "\n")) :
            HandedToLineParser(parser, Split(text, "\n"), i) =>
                TransactionsOfLine(i - 1) =
                    Found(FallbackOrder(parser, Strip(Split(text, "\n")[i]),
                                        statement_year(parser, text), i - 1))

----------------------------------------------------------------------------
(* Claims about the classification of the base parser *)

\* the types in the order of their priority
TypePriority == <<"payment", "fee", "interest", "cash_advance", "credit">>

\* the keyword set of the type has a match in the description
HasKeywordOf(type, description) ==
    \E i \in 1..Len(transaction_type_patterns) :
        /\ transaction_type_patterns[i].type = type
        /\ \E j \in 1..Len(transaction_type_patterns[i].patterns) :
               ReSearch(transaction_type_patterns[i].patterns[j], description, TRUE).ok

\* C23: _classify_transaction_type returns the first type, in the order
\* payment, fee, interest, cash_advance, credit, whose keyword set has a match
\* in the description, and purchase when none has: of several matching types
\* the earliest in that order.
C23_TypePriority ==
    call.op = "_classify_transaction_type" =>
        /\ \A k \in 1..Len(TypePriority) :
               /\ HasKeywordOf(TypePriority[k], call.arg)
               /\ \A m \in 1..(k - 1) : ~HasKeywordOf(TypePriority[m], call.arg)
               => call.out = TypePriority[k]
        /\ (\A k \in 1..Len(TypePriority) : ~HasKeywordOf(TypePriority[k], call.arg))
               => call.out = "purchase"

\* a keyword of credit stands before a keyword of fee in the description: the
\* type is fee
C23_Witness ==
    /\ call.op = "_classify_transaction_type"
    /\ call.arg = "refund fee"
    /\ HasKeywordOf("credit", call.arg) /\ HasKeywordOf("fee", call.arg)
    /\ call.out = "fee"

----------------------------------------------------------------------------
(* Claims about clean_statement and clean_transaction *)

\* the strictly increasing sequences of n indices of 1..m
Increasing(n, m) ==
    {f \in [1..n -> 1..m] : \A k \in 1..(n - 1) : f[k] < f[k + 1]}

\* C24: clean_statement leaves as transactions the cleaned images of a
\* subsequence of the input transactions, in their order: never more than
\* the input, none moved, none twice; it keeps every processing note in its
\* place and appends exactly one cleaning-summary note; metadata and raw_text
\* are unchanged.
C24_CleanStatementEffect ==
    call.op = "clean_statement" =>
        /\ Len(call.out.transactions) <= Len(call.arg.transactions)
        /\ \E f \in Increasing(Len(call.out.transactions), Len(call.arg.transactions)) :
               \A k \in DOMAIN f :
                   call.out.transactions[k] =
                       clean_transaction(call.arg.transactions[f[k]], call.day)
        /\ Len(call.out.processing_notes) = Len(call.arg.processing_notes) + 1
        /\ \A k \in 1..Len(call.arg.processing_notes) :
               call.out.processing_notes[k] = call.arg.processing_notes[k]
        /\ StartsWith(call.out.processing_notes[Len(call.out.processing_notes)],
                      "Data cleaning applied: ")
        /\ call.out.metadata = call.arg.metadata
        /\ call.out.raw_text = call.arg.raw_text

\* of a statement with a note and two transactions, the first of which has an
\* empty description after cleaning, the second is left, and a note is added
C24_Witness ==
    /\ call.op = "clean_statement"
    /\ Len(call.arg.processing_notes) = 1
    /\ Len(call.arg.transactions) = 2
    /\ call.arg.transactions[1] = NoiseTransaction
    /\ Len(call.out.transactions) = 1
    /\ call.out.transactions[1].reference = call.arg.transactions[2].reference
    /\ call.out.processing_notes =
           Append(call.arg.processing_notes,
                  "Data cleaning applied: 1 transactions processed")

\* the date lies in the validity window of the day: from the first day of
\* the tenth year before to the last day of the next year
InWindow(d, day) == d # NoDate /\ d[1] >= day[1] - 10 /\ d[1] <= day[1] + 1

\* the category of the first category group with a pattern found in the
\* description, "" when there is none
FirstCategory(description) ==
    LET found == {i \in 1..Len(category_patterns) :
                     ReSearch(category_patterns[i].pat, description, TRUE).ok}
    IN  IF found = {} THEN ""
        ELSE category_patterns[CHOOSE i \in found : \A j \in found : i <= j].category

\* C25: clean_transaction drops a transaction exactly when its description
\* is empty after description cleaning or its date lies outside the validity
\* window; a transaction whose amount cannot be parsed is kept with amount
\* 0.00; a kept transaction retains its date, type and reference, keeps a
\* category that is set, and otherwise gets the first matching category
\* group or stays without a category.
C25_DropRule ==
    call.op = "clean_transaction" =>
        /\ call.out = Dropped <=>
               \/ Strip(clean_description(call.arg.description)) = ""
               \/ ~InWindow(call.arg.date, call.day)
        /\ call.out # Dropped =>
               /\ call.out.date = call.arg.date
               /\ call.out.transaction_type = call.arg.transaction_type
               /\ call.out.reference = call.arg.reference
               /\ call.arg.amount = HugeCents => call.out.amount = 0
               /\ call.arg.category # "" => call.out.category = call.arg.category
               /\ call.arg.category = "" =>
                      call.out.category = FirstCategory(call.out.description)

\* a transaction with an amount that cannot be parsed and without a category
\* is kept with the amount 0.00 and the category of its description
C25_Witness ==
    /\ call.op = "clean_transaction"
    /\ call.arg.amount = HugeCents
    /\ call.arg.category = ""
    /\ call.out # Dropped
    /\ call.out.amount = 0
    /\ call.out.category = "Restaurants"

----------------------------------------------------------------------------
(* Claims about the payload of a success *)

\* C26: in every success result, data.rows has one row for each transaction
\* of the statement, in document order; each row has 6 fields, aligned with
\* the headers Date, Description, Amount, Type, Category, Reference; and
\* data.metadata.totalTransactions is the number of rows, which is at least 1.
C26_PayloadConsistency ==
    result.success =>
        /\ Len(result.data) = 1
        /\ result.data[1].headers =
               <<"Date", "Description", "Amount", "Type", "Category", "Reference">>
        /\ Len(result.data[1].rows) = Len(transactions)
        /\ \A k \in 1..Len(transactions) :
               /\ Len(result.data[1].rows[k]) = 6
               /\ result.data[1].rows[k][1] = DateStr(transactions[k].date)
               /\ result.data[1].rows[k][2] = transactions[k].description
               /\ result.data[1].rows[k][3] = FloatStr(transactions[k].amount)
               /\ result.data[1].rows[k][4] = transactions[k].transaction_type
               /\ result.data[1].rows[k][5] = ""
               /\ result.data[1].rows[k][6] = transactions[k].reference
        /\ \A k \in 1..(Len(transactions) - 1) :
               transactions[k].line_num < transactions[k + 1].line_num
        /\ result.data[1].metadata.totalTransactions = Len(result.data[1].rows)
        /\ Len(result.data[1].rows) >= 1

\* a success for a statement of two pages with a transaction each: two rows,
\* that of the first page first
C26_Witness ==
    /\ result.success
    /\ Len(result.data[1].rows) = 2
    /\ result.data[1].rows[1][1] = "2024-01-02"
    /\ result.data[1].rows[2][1] = "2024-01-05"
    /\ result.data[1].metadata.totalTransactions = 2

----------------------------------------------------------------------------
(* Claims about the year of a statement *)

\* the positions of the text where a token 20dd begins
YearTokens(t) ==
    {i \in 1..(Len(t) - 3) :
        /\ SubSeq(t, i, i + 1) = "20"
        /\ CharAt(t, i + 2) \in Digit
        /\ CharAt(t, i + 3) \in Digit}

\* the first token 20dd of the text, the constant 2024 when it has none
FirstYearToken(t) ==
    IF YearTokens(t) = {} THEN 2024
    ELSE LET i == CHOOSE i \in YearTokens(t) : \A j \in YearTokens(t) : i <= j
         IN  ToInt(SubSeq(t, i, i + 3))

\* the line has a date with a year
CarriesYear(line) ==
    \E i \in 1..Len(date_patterns) : ReSearch(date_patterns[i], line, FALSE).ok

\* C27: the Chase, the Amex and the generic parser give a transaction whose
\* line carries no year the year of the first token 20dd of the text; the
\* Banco Nacion parser takes the greatest of the tokens; without a token,
\* every parser uses a constant year, whatever the current date.
C27_StatementYear ==
    parser \in {"ChaseParser", "AmexParser", "GenericParser"} =>
        \A k \in 1..Len(transactions) :
            ~CarriesYear(Split(text, "\n")[transactions[k].line_num + 1]) =>
                transactions[k].date[1] = FirstYearToken(text)

----------------------------------------------------------------------------
(* Claims about the references of the Amex parser *)

\* the match of a line with the form MMM DD <description> <REF> <amount>, REF
\* being a token of capital letters and digits before the amount
ReferenceForm(line) == ReMatch(amex_transaction_patterns[3], line, FALSE)

\* C28: of a line of the form MMM DD <description> <REF> <amount> the Amex
\* parser makes a transaction whose reference is REF and whose description
\* does not include REF; of a line without such a token it makes a
\* transaction without a reference.
C28_AmexReference ==
    parser = "AmexParser" =>
        \A i \in 1..Len(Split(text, "\n")) :
            LET line == Strip(Split(text, "\n")[i]) IN
            HandedToLineParser(parser, Split(text, "\n"), i) =>
                IF /\ ReferenceForm(line).ok
                   /\ _parse_amex_date(Group(ReferenceForm(line), line, 1),
                                       statement_year(parser, text)) # NoDate
                THEN /\ Len(TransactionsOfLine(i - 1)) = 1
                     /\ TransactionsOfLine(i - 1)[1].reference =
                            Group(ReferenceForm(line), line, 3)
                     /\ TransactionsOfLine(i - 1)[1].description =
                            Strip(Group(ReferenceForm(line), line, 2))
                ELSE \A k \in 1..Len(TransactionsOfLine(i - 1)) :
                         TransactionsOfLine(i - 1)[k].reference = ""

----------------------------------------------------------------------------
(* Claims about the registration of parsers *)

\* C29: register_parser of a class that is no subclass of BaseStatementParser
\* raises ValueError and leaves the registry as it is; of a subclass it
\* replaces the entry of the bank type and no other entry; only
\* register_parser changes the registry, and every get_parser_for_bank of a
\* registered bank type returns an instance of the class of its entry.
C29_RegisterParser ==
    [][/\ call'.op = "register_parser" =>
              IF ~IsParserClass(call'.arg[2])
              THEN /\ call'.out = "ValueError"
                   /\ shared'.registry = shared.registry
              ELSE /\ call'.out # "ValueError"
                   /\ DOMAIN shared'.registry =
                          DOMAIN shared.registry \cup {call'.arg[1]}
                   /\ shared'.registry[call'.arg[1]] = call'.arg[2]
                   /\ \A tag \in DOMAIN shared.registry \ {call'.arg[1]} :
                          shared'.registry[tag] = shared.registry[tag]
       /\ call'.op # "register_parser" => shared'.registry = shared.registry
       /\ call'.op = "get_parser_for_bank" /\ call'.arg[1] \in DOMAIN shared.registry =>
              call'.out = shared.registry[call'.arg[1]]]_vars

----------------------------------------------------------------------------
(* Claims about the section transitions of the Banco Nacion parser *)

\* the section flag after the lines up to line i: no section at the start;
\* after a line with the start marker a section, whatever there was before;
\* after a line with an end marker and no start marker no section
RECURSIVE FlagAfter(_, _)
FlagAfter(lines, i) ==
    IF i = 0 THEN FALSE
    ELSE IF IsStartMarker(lines[i]) THEN TRUE
    ELSE IF IsEndMarker(lines[i]) THEN FALSE
    ELSE FlagAfter(lines, i - 1)

\* line i is no marker line, the flag is set when the loop comes to it, and
\* the line parser makes a transaction of it
Collected(lines, i) ==
    /\ ~IsStartMarker(lines[i])
    /\ ~IsEndMarker(lines[i])
    /\ FlagAfter(lines, i - 1)
    /\ _parse_banco_nacion_transaction(Strip(lines[i]), i - 1) # NoTxn

\* C30: the section flag of the Banco Nacion loop starts closed; a line with
\* the start marker opens it, a line with an end marker and no start marker
\* closes it, a line with both opens it, whatever the flag was.  The
\* transactions returned are those of the transaction lines met while the
\* flag is open, of every section, reopened or never closed, in document
\* order.
C30_SectionTransitions ==
    parser = "BancoNacionParser" =>
        LET lines == Split(text, "\n") IN
        /\ \A i \in 1..Len(lines) :
               TransactionsOfLine(i - 1) =
                   IF Collected(lines, i)
                   THEN <<_parse_banco_nacion_transaction(Strip(lines[i]), i - 1)>>
                   ELSE <<>>
        /\ \A k \in 1..Len(transactions) :
               /\ transactions[k].line_num + 1 \in 1..Len(lines)
               /\ k > 1 => transactions[k - 1].line_num < transactions[k].line_num

\* a section closed by an end marker and a second one, opened by a line with
\* both markers and never closed: the transactions of both, in order
C30_Witness ==
    /\ parser = "BancoNacionParser"
    /\ text = "COMPRAS DEL MES\n05-Ene-24 SUPERMERCADO 12345 1.234,56\nTOTAL COMPRAS\n"
              \o "TOTAL COMPRAS DEL MES\n05-Ene-24 SUPERMERCADO 12345 1.234,56"
    /\ Len(transactions) = 2
    /\ transactions[1].line_num = 1
    /\ transactions[2].line_num = 4

====
